---------------------------- MODULE Spec2Model ----------------------------
(***************************************************************************)
(* A model of the FileSource channel (plugins/channeltx/filesource), of    *)
(* the ChannelAnalyzer sink (plugins/channelrx/chanalyzer), of the AFC     *)
(* worker (plugins/feature/afc) and of the message queues they exchange    *)
(* configuration through.                                                  *)
(*                                                                         *)
(* Eight specifications share the module's variables:                      *)
(*   Spec          FileSource's message handling, web API and baseband     *)
(*   SpecValidate  validateFilterChainHash as a function of its input      *)
(*   SpecQueue     one MessageQueue with several producers                 *)
(*   SpecLife      FileSource::start / stop against the worker thread      *)
(*   SpecCA        ChannelAnalyzer::feed against handleMessage             *)
(*   SpecReport    FileSource::webapiReportGet as a function of its input  *)
(*   SpecAFC       AFCWorker: startWork, stopWork, ticks and messages      *)
(*   SpecPatch     successive webapiSettingsPutPatch calls and the         *)
(*                 handling of their messages                              *)
(***************************************************************************)
EXTENDS Integers, Sequences, FiniteSets, TLC

VARIABLES
    \* ---- FileSource (filesource.cpp) ----
    m_settings,            \* FileSourceSettings m_settings
    m_linearGain,          \* double m_linearGain
    m_basebandSampleRate,  \* int m_basebandSampleRate
    m_frequencyOffset,     \* m_frequencyOffset
    centerFrequency,       \* value given to setCenterFrequency
    guiSet,                \* m_guiMessageQueue != nullptr
    inputQueue,            \* m_inputMessageQueue
    bbQueue,               \* m_basebandSource->getInputMessageQueue()
    guiQueue,              \* *m_guiMessageQueue
    reverseSent,           \* the last PATCH sent by webapiReverseSendSettings
    ret,                   \* the call that has just returned: its name, the
                           \* message it was given and the value it returned
    msgLog,                \* the message objects that call created, and the
                           \* pushes it made, in order
    \* ---- the baseband source and its worker thread ----
    bbSettings,            \* the settings the baseband source computes under
    pulled,                \* what the pull that has just returned was computed under
    threadRunning,         \* m_thread->isRunning()
    \* ---- history of the control domain ----
    lastEnqueued,          \* settings of the last MsgConfigureFileSource pushed
    nSent,                 \* messages pushed to the input queue so far
    \* ---- SpecValidate ----
    valIn, valOut, valDone,
    \* ---- SpecQueue ----
    mq, mqSent, mqRecv,
    \* ---- SpecLife ----
    ctl, exited, resetSinceStop, lastCall, runs, nCalls, nWork,
    \* ---- SpecCA ----
    caCfg, caBuilt, caMutex, caQueue, hmPc, hmMsg, feedPc, feedSeen, nFeeds,
    nCfgs,
    \* ---- SpecReport ----
    repIn, repOut, repDone,
    \* ---- SpecAFC ----
    afcRunning, afcTimer, afcPending, afcTx, afcSettings, afcQueue, afcIssued,
    afcLast, nAfc,
    \* ---- SpecPatch ----
    patchLog               \* the webapiSettingsPutPatch calls made so far

fsVars == <<m_settings, m_linearGain, m_basebandSampleRate, m_frequencyOffset,
            centerFrequency, guiSet, inputQueue, bbQueue, guiQueue, reverseSent,
            ret, msgLog, bbSettings, pulled, threadRunning,
            lastEnqueued, nSent>>
valVars == <<valIn, valOut, valDone>>
mqVars == <<mq, mqSent, mqRecv>>
lifeVars == <<ctl, exited, resetSinceStop, lastCall, runs, nCalls, nWork>>
caVars == <<caCfg, caBuilt, caMutex, caQueue, hmPc, hmMsg, feedPc, feedSeen, nFeeds,
           nCfgs>>
repVars == <<repIn, repOut, repDone>>
afcVars == <<afcRunning, afcTimer, afcPending, afcTx, afcSettings, afcQueue,
            afcIssued, afcLast, nAfc>>
patchVars == <<patchLog>>
vars == <<fsVars, valVars, mqVars, lifeVars, caVars, repVars, afcVars,
          patchVars>>

---------------------------------------------------------------------------
(* Bounds of the model.                                                    *)

MaxQueue == 2        \* longest input queue and baseband queue
MaxGuiQueue == 1     \* longest GUI queue
MaxSends == 2        \* messages pushed to the input queue in one behaviour
MaxLog2Val == 22     \* largest m_log2Interp given to validateFilterChainHash
MaxSeq == 3          \* messages one producer pushes in SpecQueue
MaxCalls == 6        \* start()/stop() calls in SpecLife
MaxWork == 3         \* blocks the worker processes in SpecLife
MaxFeeds == 2        \* feed calls in SpecCA
MaxCfgs == 2         \* configure messages in SpecCA
MaxAfcOps == 4       \* startWork, stopWork and configure calls in SpecAFC

---------------------------------------------------------------------------
(* unsigned int: 32 bits, kept as two 16-bit halves.                       *)

Half == 65536

U32 == [hi : 0..(Half - 1), lo : 0..(Half - 1)]

U32Of(n) == [hi |-> n \div Half, lo |-> n % Half]

\* s * 3 in unsigned int arithmetic (modulo 2^32)
U32Mul3(s) ==
    LET l == s.lo * 3
        h == s.hi * 3 + (l \div Half)
    IN  [hi |-> h % Half, lo |-> l % Half]

\* s - 1 in unsigned int arithmetic (modulo 2^32)
U32Dec(s) ==
    IF s.lo > 0 THEN [hi |-> s.hi, lo |-> s.lo - 1]
    ELSE [hi |-> (s.hi + Half - 1) % Half, lo |-> Half - 1]

U32Geq(a, b) == a.hi > b.hi \/ (a.hi = b.hi /\ a.lo >= b.lo)

---------------------------------------------------------------------------
(* FileSourceSettings.                                                     *)

SettingsKeys == {"m_fileName", "m_loop", "m_log2Interp", "m_filterChainHash",
                 "m_gainDB", "m_rgbColor", "m_title", "m_useReverseAPI",
                 "m_reverseAPIAddress", "m_reverseAPIPort",
                 "m_reverseAPIDeviceIndex", "m_reverseAPIChannelIndex"}

\* FileSourceSettings::resetToDefaults
DefaultSettings ==
    [m_fileName |-> "test.sdriq", m_loop |-> TRUE, m_log2Interp |-> 0,
     m_filterChainHash |-> U32Of(0), m_gainDB |-> 0, m_rgbColor |-> 0,
     m_title |-> "File source", m_useReverseAPI |-> FALSE,
     m_reverseAPIAddress |-> "127.0.0.1", m_reverseAPIPort |-> 8888,
     m_reverseAPIDeviceIndex |-> 0, m_reverseAPIChannelIndex |-> 0]

\* the loop of validateFilterChainHash: s = 1; n times s *= 3
RECURSIVE Pow3U32(_)
Pow3U32(n) == IF n = 0 THEN U32Of(1) ELSE U32Mul3(Pow3U32(n - 1))

\* a validateFilterChainHash whose loop runs once too often (i <= m_log2Interp)
validateFilterChainHash_OffByOne(settings) ==
    LET s == Pow3U32(settings.m_log2Interp + 1)
    IN  [settings EXCEPT !.m_filterChainHash =
            IF U32Geq(@, s) THEN U32Dec(s) ELSE @]

\* a validateFilterChainHash that does nothing
validateFilterChainHash_Skip(settings) == settings

validateFilterChainHash(settings) ==
    LET s == Pow3U32(settings.m_log2Interp)
    IN  [settings EXCEPT !.m_filterChainHash =
            IF U32Geq(@, s) THEN U32Dec(s) ELSE @]


---------------------------------------------------------------------------
(* Helpers of FileSource that live outside filesource.cpp.                 *)

\* a queue that hands out the newest message first
push_Front(q, msg) == <<msg>> \o q

\* MessageQueue::push
push(q, msg) == Append(q, msg)

\* MessageQueue::pop: the message taken, and what is left
popMsg(q) == Head(q)
popRest(q) == Tail(q)

RECURSIVE Pow(_, _)
Pow(b, n) == IF n = 0 THEN 1 ELSE b * Pow(b, n - 1)

\* CalcDb::powerFromdB: 10^(dB/10), exact on the multiples of 10 the model uses
powerFromdB(gainDB) == Pow(10, gainDB \div 10)

NatOf(u) == u.hi * Half + u.lo

\* HBFilterChainConverter::getShiftFactor as the fraction num / 2^(log2+1):
\* the hash is read as log2 base-3 digits, 0 no shift, 1 up, 2 down, the
\* most significant digit weighing a quarter of the rate, each next one half
\* of the one before.
RECURSIVE ShiftNum(_, _)
ShiftNum(log2, u) ==
    IF log2 = 0 THEN 0
    ELSE LET r == u % 3
             sign == IF r = 1 THEN 1 ELSE IF r = 2 THEN -1 ELSE 0
         IN  sign + 2 * ShiftNum(log2 - 1, u \div 3)

getShiftFactor(log2, chainHash) ==
    [num |-> ShiftNum(log2, NatOf(chainHash) % Pow(3, log2)),
     den |-> Pow(2, log2 + 1)]

\* conversion of a double to an integer: towards zero
TruncDiv(a, b) == IF a >= 0 THEN a \div b ELSE -((-a) \div b)

---------------------------------------------------------------------------
(* FileSource: the functions of filesource.cpp.                            *)

\* A call's message objects, named as the source names them ("cmd" is the
\* message handleMessage was given): those it created, and its pushes
Log(created, pushed) == [created |-> created, pushed |-> pushed]

Pushed(obj, queue) == [obj |-> obj, queue |-> queue]

NoLog == Log({}, <<>>)

Contains(list, key) == \E i \in 1..Len(list) : list[i] = key

\* FileSource::calculateFrequencyOffset, on the settings and rate given
calculateFrequencyOffset(settings, basebandSampleRate) ==
    LET shiftFactor == getShiftFactor(settings.m_log2Interp,
                                      settings.m_filterChainHash)
    IN  TruncDiv(basebandSampleRate * shiftFactor.num, shiftFactor.den)

\* The fields webapiReverseSendSettings sets in the body of its PATCH
ReverseBodyKeys(channelSettingsKeys, force) ==
    {k \in {"log2Interp", "filterChainHash", "gainDB", "rgbColor", "title"} :
        Contains(channelSettingsKeys, k) \/ force}

ReverseBodyValue(settings, k) ==
    CASE k = "log2Interp" -> settings.m_log2Interp
      [] k = "filterChainHash" -> settings.m_filterChainHash
      [] k = "gainDB" -> settings.m_gainDB
      [] k = "rgbColor" -> settings.m_rgbColor
      [] k = "title" -> settings.m_title

\* FileSource::webapiReverseSendSettings: the request handed to the network
\* manager
webapiReverseSendSettings(channelSettingsKeys, settings, force) ==
    [method |-> "PATCH",
     url |-> <<settings.m_reverseAPIAddress, settings.m_reverseAPIPort,
               settings.m_reverseAPIDeviceIndex,
               settings.m_reverseAPIChannelIndex>>,
     body |-> [k \in ReverseBodyKeys(channelSettingsKeys, force) |->
                  ReverseBodyValue(settings, k)]]

\* a reverseAPIKeys list that compares no field
reverseAPIKeys_ForceOnly(settings, force) ==
    IF force THEN <<"loop", "fileName", "gainDB">> ELSE <<>>

\* The reverseAPIKeys list applySettings builds
reverseAPIKeys(settings, force) ==
    (IF (m_settings.m_loop # settings.m_loop) \/ force
        THEN <<"loop">> ELSE <<>>)
    \o (IF (m_settings.m_fileName # settings.m_fileName) \/ force
        THEN <<"fileName">> ELSE <<>>)
    \o (IF (m_settings.m_gainDB # settings.m_gainDB) \/ force
        THEN <<"gainDB">> ELSE <<>>)

\* an applySettings that does not relay the settings to the baseband source
applySettings_NoRelay(settings, force) ==
    /\ m_linearGain' = IF (m_settings.m_gainDB # settings.m_gainDB) \/ force
                       THEN powerFromdB(settings.m_gainDB) ELSE m_linearGain
    /\ bbQueue' = bbQueue
    /\ reverseSent' = reverseSent
    /\ msgLog' = NoLog
    /\ m_settings' = settings

\* an applySettings that relays to the baseband source only what changed
applySettings_RelayOnChange(settings, force) ==
    /\ m_linearGain' = IF (m_settings.m_gainDB # settings.m_gainDB) \/ force
                       THEN powerFromdB(settings.m_gainDB) ELSE m_linearGain
    /\ IF settings # m_settings \/ force
         THEN /\ bbQueue' = push(bbQueue, [kind |-> "MsgConfigureFileSourceBaseband",
                                           settings |-> settings, force |-> force])
              /\ msgLog' = Log({"msg"}, <<Pushed("msg", "baseband")>>)
         ELSE /\ bbQueue' = bbQueue
              /\ msgLog' = NoLog
    /\ reverseSent' =
          IF settings.m_useReverseAPI
          THEN LET fullUpdate ==
                     \/ ((m_settings.m_useReverseAPI # settings.m_useReverseAPI)
                            /\ settings.m_useReverseAPI)
                     \/ m_settings.m_reverseAPIAddress # settings.m_reverseAPIAddress
                     \/ m_settings.m_reverseAPIPort # settings.m_reverseAPIPort
                     \/ m_settings.m_reverseAPIDeviceIndex # settings.m_reverseAPIDeviceIndex
                     \/ m_settings.m_reverseAPIChannelIndex # settings.m_reverseAPIChannelIndex
               IN  <<[channelSettingsKeys |-> reverseAPIKeys(settings, force),
                      force |-> fullUpdate \/ force,
                      request |->
                          webapiReverseSendSettings(reverseAPIKeys(settings, force),
                                                    settings, fullUpdate \/ force)]>>
          ELSE reverseSent
    /\ m_settings' = settings

\* an applySettings that stores the settings only when it detected a change
applySettings_StoreOnDetectedChange(settings, force) ==
    /\ m_linearGain' = IF (m_settings.m_gainDB # settings.m_gainDB) \/ force
                       THEN powerFromdB(settings.m_gainDB) ELSE m_linearGain
    /\ bbQueue' = push(bbQueue, [kind |-> "MsgConfigureFileSourceBaseband",
                                 settings |-> settings, force |-> force])
    /\ msgLog' = Log({"msg"}, <<Pushed("msg", "baseband")>>)
    /\ reverseSent' =
          IF settings.m_useReverseAPI
          THEN LET fullUpdate ==
                     \/ ((m_settings.m_useReverseAPI # settings.m_useReverseAPI)
                            /\ settings.m_useReverseAPI)
                     \/ m_settings.m_reverseAPIAddress # settings.m_reverseAPIAddress
                     \/ m_settings.m_reverseAPIPort # settings.m_reverseAPIPort
                     \/ m_settings.m_reverseAPIDeviceIndex # settings.m_reverseAPIDeviceIndex
                     \/ m_settings.m_reverseAPIChannelIndex # settings.m_reverseAPIChannelIndex
               IN  <<[channelSettingsKeys |-> reverseAPIKeys(settings, force),
                      force |-> fullUpdate \/ force,
                      request |->
                          webapiReverseSendSettings(reverseAPIKeys(settings, force),
                                                    settings, fullUpdate \/ force)]>>
          ELSE reverseSent
    /\ m_settings' = IF Len(reverseAPIKeys(settings, force)) > 0
                     THEN settings ELSE m_settings

\* FileSource::applySettings
applySettings(settings, force) ==
    /\ m_linearGain' = IF (m_settings.m_gainDB # settings.m_gainDB) \/ force
                       THEN powerFromdB(settings.m_gainDB) ELSE m_linearGain
    /\ bbQueue' = push(bbQueue, [kind |-> "MsgConfigureFileSourceBaseband",
                                 settings |-> settings, force |-> force])
    /\ msgLog' = Log({"msg"}, <<Pushed("msg", "baseband")>>)
    /\ reverseSent' =
          IF settings.m_useReverseAPI
          THEN LET fullUpdate ==
                     \/ ((m_settings.m_useReverseAPI # settings.m_useReverseAPI)
                            /\ settings.m_useReverseAPI)
                     \/ m_settings.m_reverseAPIAddress # settings.m_reverseAPIAddress
                     \/ m_settings.m_reverseAPIPort # settings.m_reverseAPIPort
                     \/ m_settings.m_reverseAPIDeviceIndex # settings.m_reverseAPIDeviceIndex
                     \/ m_settings.m_reverseAPIChannelIndex # settings.m_reverseAPIChannelIndex
               IN  <<[channelSettingsKeys |-> reverseAPIKeys(settings, force),
                      force |-> fullUpdate \/ force,
                      request |->
                          webapiReverseSendSettings(reverseAPIKeys(settings, force),
                                                    settings, fullUpdate \/ force)]>>
          ELSE reverseSent
    /\ m_settings' = settings

\* a webapiUpdateChannelSettings that takes and validates the hash before it
\* takes log2Interp
webapiUpdateChannelSettings_HashFirst(settings, channelSettingsKeys, response) ==
    LET s1 == IF "filterChainHash" \in channelSettingsKeys
              THEN validateFilterChainHash(
                      [settings EXCEPT
                          !.m_filterChainHash = U32Of(response.filterChainHash)])
              ELSE settings
        s2 == IF "log2Interp" \in channelSettingsKeys
              THEN [s1 EXCEPT !.m_log2Interp = response.log2Interp]
              ELSE s1
    IN  [s2 EXCEPT
           !.m_rgbColor = IF "rgbColor" \in channelSettingsKeys
                          THEN response.rgbColor ELSE @,
           !.m_title = IF "title" \in channelSettingsKeys
                       THEN response.title ELSE @,
           !.m_gainDB = IF "gainDB" \in channelSettingsKeys
                        THEN response.gainDB ELSE @,
           !.m_useReverseAPI = IF "useReverseAPI" \in channelSettingsKeys
                               THEN response.useReverseAPI # 0 ELSE @,
           !.m_reverseAPIAddress = IF "reverseAPIAddress" \in channelSettingsKeys
                                   THEN response.reverseAPIAddress ELSE @,
           !.m_reverseAPIPort = IF "reverseAPIPort" \in channelSettingsKeys
                                THEN response.reverseAPIPort ELSE @,
           !.m_reverseAPIDeviceIndex =
               IF "reverseAPIDeviceIndex" \in channelSettingsKeys
               THEN response.reverseAPIDeviceIndex ELSE @,
           !.m_reverseAPIChannelIndex =
               IF "reverseAPIChannelIndex" \in channelSettingsKeys
               THEN response.reverseAPIChannelIndex ELSE @]

\* FileSource::webapiUpdateChannelSettings: settings as updated from the
\* request's fields named in channelSettingsKeys
webapiUpdateChannelSettings(settings, channelSettingsKeys, response) ==
    LET s1 == IF "log2Interp" \in channelSettingsKeys
              THEN [settings EXCEPT !.m_log2Interp = response.log2Interp]
              ELSE settings
        s2 == IF "filterChainHash" \in channelSettingsKeys
              THEN validateFilterChainHash(
                      [s1 EXCEPT !.m_filterChainHash = U32Of(response.filterChainHash)])
              ELSE s1
        s3 == IF "rgbColor" \in channelSettingsKeys
              THEN [s2 EXCEPT !.m_rgbColor = response.rgbColor] ELSE s2
        s4 == IF "title" \in channelSettingsKeys
              THEN [s3 EXCEPT !.m_title = response.title] ELSE s3
        s5 == IF "gainDB" \in channelSettingsKeys
              THEN [s4 EXCEPT !.m_gainDB = response.gainDB] ELSE s4
        s6 == IF "useReverseAPI" \in channelSettingsKeys
              THEN [s5 EXCEPT !.m_useReverseAPI = (response.useReverseAPI # 0)]
              ELSE s5
        s7 == IF "reverseAPIAddress" \in channelSettingsKeys
              THEN [s6 EXCEPT !.m_reverseAPIAddress = response.reverseAPIAddress]
              ELSE s6
        s8 == IF "reverseAPIPort" \in channelSettingsKeys
              THEN [s7 EXCEPT !.m_reverseAPIPort = response.reverseAPIPort]
              ELSE s7
        s9 == IF "reverseAPIDeviceIndex" \in channelSettingsKeys
              THEN [s8 EXCEPT !.m_reverseAPIDeviceIndex = response.reverseAPIDeviceIndex]
              ELSE s8
    IN  IF "reverseAPIChannelIndex" \in channelSettingsKeys
        THEN [s9 EXCEPT !.m_reverseAPIChannelIndex = response.reverseAPIChannelIndex]
        ELSE s9


---------------------------------------------------------------------------
(* FileSource::handleMessage, one operator per branch.  Each gives the     *)
(* state handleMessage leaves and the value it returns.                    *)

NoCmd == [kind |-> "none"]

Returned(op, cmd, val) == [of |-> op, cmd |-> cmd, val |-> val]

\* no call of FileSource has just returned
NotReturned == Returned("none", NoCmd, 0)

\* a DSPSignalNotification branch that builds the GUI's notification from
\* m_basebandSampleRate before the new rate is stored in it
handleDSPSignalNotification_StaleRate(notif) ==
    /\ m_basebandSampleRate' = notif.sampleRate
    /\ m_frequencyOffset' = calculateFrequencyOffset(m_settings, notif.sampleRate)
    /\ centerFrequency' = notif.centerFrequency
    /\ bbQueue' = push(bbQueue, notif)
    /\ guiQueue' = IF guiSet
                   THEN push(guiQueue, [kind |-> "MsgSampleRateNotification",
                                        sampleRate |-> m_basebandSampleRate])
                   ELSE guiQueue
    /\ msgLog' = IF guiSet
                 THEN Log({"sig", "msg"}, <<Pushed("sig", "baseband"),
                                            Pushed("msg", "gui")>>)
                 ELSE Log({"sig"}, <<Pushed("sig", "baseband")>>)
    /\ ret' = Returned("handleMessage", notif, TRUE)
    /\ UNCHANGED <<m_settings, m_linearGain, reverseSent>>

\* a DSPSignalNotification branch that pushes the notification it was given
\* to the baseband source instead of a copy of it
handleDSPSignalNotification_PushCmd(notif) ==
    /\ m_basebandSampleRate' = notif.sampleRate
    /\ m_frequencyOffset' = calculateFrequencyOffset(m_settings, notif.sampleRate)
    /\ centerFrequency' = notif.centerFrequency
    /\ bbQueue' = push(bbQueue, notif)
    /\ guiQueue' = IF guiSet
                   THEN push(guiQueue, [kind |-> "MsgSampleRateNotification",
                                        sampleRate |-> notif.sampleRate])
                   ELSE guiQueue
    /\ msgLog' = IF guiSet
                 THEN Log({"msg"}, <<Pushed("cmd", "baseband"),
                                     Pushed("msg", "gui")>>)
                 ELSE Log({}, <<Pushed("cmd", "baseband")>>)
    /\ ret' = Returned("handleMessage", notif, TRUE)
    /\ UNCHANGED <<m_settings, m_linearGain, reverseSent>>

\* lines 112-137
handleDSPSignalNotification(notif) ==
    /\ m_basebandSampleRate' = notif.sampleRate
    /\ m_frequencyOffset' = calculateFrequencyOffset(m_settings, notif.sampleRate)
    /\ centerFrequency' = notif.centerFrequency
    /\ bbQueue' = push(bbQueue, notif)
    /\ guiQueue' = IF guiSet
                   THEN push(guiQueue, [kind |-> "MsgSampleRateNotification",
                                        sampleRate |-> notif.sampleRate])
                   ELSE guiQueue
    /\ msgLog' = IF guiSet
                 THEN Log({"sig", "msg"}, <<Pushed("sig", "baseband"),
                                            Pushed("msg", "gui")>>)
                 ELSE Log({"sig"}, <<Pushed("sig", "baseband")>>)
    /\ ret' = Returned("handleMessage", notif, TRUE)
    /\ UNCHANGED <<m_settings, m_linearGain, reverseSent>>

\* lines 138-144
handleConfigureFileSource(cfg) ==
    /\ applySettings(cfg.settings, cfg.force)
    /\ ret' = Returned("handleMessage", cfg, TRUE)
    /\ UNCHANGED <<m_basebandSampleRate, m_frequencyOffset, centerFrequency,
                   guiQueue>>

\* lines 145-153
handleConfigureFileSourceName(conf) ==
    /\ bbQueue' = push(bbQueue,
                       [kind |-> "FileSourceBaseband::MsgConfigureFileSourceName",
                        fileName |-> conf.fileName])
    /\ msgLog' = Log({"msg"}, <<Pushed("msg", "baseband")>>)
    /\ ret' = Returned("handleMessage", conf, TRUE)
    /\ UNCHANGED <<m_settings, m_linearGain, m_basebandSampleRate,
                   m_frequencyOffset, centerFrequency, guiQueue, reverseSent>>

\* lines 154-161
handleConfigureFileSourceWork(conf) ==
    /\ bbQueue' = push(bbQueue,
                       [kind |-> "FileSourceBaseband::MsgConfigureFileSourceWork",
                        working |-> conf.working])
    /\ msgLog' = Log({"msg"}, <<Pushed("msg", "baseband")>>)
    /\ ret' = Returned("handleMessage", conf, TRUE)
    /\ UNCHANGED <<m_settings, m_linearGain, m_basebandSampleRate,
                   m_frequencyOffset, centerFrequency, guiQueue, reverseSent>>

\* a Seek branch copied from the Work branch and left as it was
handleConfigureFileSourceSeek_CopyPaste(conf) ==
    /\ bbQueue' = push(bbQueue,
                       [kind |-> "FileSourceBaseband::MsgConfigureFileSourceWork",
                        working |-> TRUE])
    /\ msgLog' = Log({"msg"}, <<Pushed("msg", "baseband")>>)
    /\ ret' = Returned("handleMessage", conf, TRUE)
    /\ UNCHANGED <<m_settings, m_linearGain, m_basebandSampleRate,
                   m_frequencyOffset, centerFrequency, guiQueue, reverseSent>>

\* lines 162-169
handleConfigureFileSourceSeek(conf) ==
    /\ bbQueue' = push(bbQueue,
                       [kind |-> "FileSourceBaseband::MsgConfigureFileSourceSeek",
                        millis |-> conf.millis])
    /\ msgLog' = Log({"msg"}, <<Pushed("msg", "baseband")>>)
    /\ ret' = Returned("handleMessage", conf, TRUE)
    /\ UNCHANGED <<m_settings, m_linearGain, m_basebandSampleRate,
                   m_frequencyOffset, centerFrequency, guiQueue, reverseSent>>

\* What m_basebandSource->getSamplesCount() may return
SamplesCounts == {0, 48000}

\* lines 170-180
handleConfigureFileSourceStreamTiming(conf) ==
    /\ \E samplesCount \in SamplesCounts :
          guiQueue' = IF guiSet
                      THEN push(guiQueue,
                                [kind |-> "FileSourceReport::MsgReportFileSourceStreamTiming",
                                 samplesCount |-> samplesCount])
                      ELSE guiQueue
    /\ msgLog' = IF guiSet
                 THEN Log({"report"}, <<Pushed("report", "gui")>>)
                 ELSE NoLog
    /\ ret' = Returned("handleMessage", conf, TRUE)
    /\ UNCHANGED <<m_settings, m_linearGain, m_basebandSampleRate,
                   m_frequencyOffset, centerFrequency, bbQueue, reverseSent>>

\* an else branch that takes a sample-rate notification for the device's
handleUnmatched_AsNotification(cmd) ==
    IF cmd.kind = "MsgSampleRateNotification"
    THEN handleDSPSignalNotification(
            [kind |-> "DSPSignalNotification", sampleRate |-> cmd.sampleRate,
             centerFrequency |-> centerFrequency])
    ELSE /\ ret' = Returned("handleMessage", cmd, FALSE)
         /\ msgLog' = NoLog
         /\ UNCHANGED <<m_settings, m_linearGain, m_basebandSampleRate,
                        m_frequencyOffset, centerFrequency, bbQueue, guiQueue,
                        reverseSent>>

\* lines 181-184
handleUnmatched(cmd) ==
    /\ ret' = Returned("handleMessage", cmd, FALSE)
    /\ msgLog' = NoLog
    /\ UNCHANGED <<m_settings, m_linearGain, m_basebandSampleRate,
                   m_frequencyOffset, centerFrequency, bbQueue, guiQueue,
                   reverseSent>>

\* FileSource::handleMessage
handleMessage(cmd) ==
    CASE cmd.kind = "DSPSignalNotification" -> handleDSPSignalNotification(cmd)
      [] cmd.kind = "MsgConfigureFileSource" -> handleConfigureFileSource(cmd)
      [] cmd.kind = "MsgConfigureFileSourceName" -> handleConfigureFileSourceName(cmd)
      [] cmd.kind = "MsgConfigureFileSourceWork" -> handleConfigureFileSourceWork(cmd)
      [] cmd.kind = "MsgConfigureFileSourceSeek" -> handleConfigureFileSourceSeek(cmd)
      [] cmd.kind = "MsgConfigureFileSourceStreamTiming" ->
            handleConfigureFileSourceStreamTiming(cmd)
      [] OTHER -> handleUnmatched(cmd)


---------------------------------------------------------------------------
(* What the control domain and the device send.                            *)

\* Bodies of PUT/PATCH requests (SWGFileSourceSettings)
Requests ==
    {[log2Interp |-> 2, filterChainHash |-> 7, gainDB |-> 10, rgbColor |-> 1,
      title |-> "t1", useReverseAPI |-> 1, reverseAPIAddress |-> "10.0.0.1",
      reverseAPIPort |-> 8889, reverseAPIDeviceIndex |-> 1,
      reverseAPIChannelIndex |-> 1],
     [log2Interp |-> 1, filterChainHash |-> 9, gainDB |-> 0, rgbColor |-> 0,
      title |-> "File source", useReverseAPI |-> 0,
      reverseAPIAddress |-> "127.0.0.1", reverseAPIPort |-> 8888,
      reverseAPIDeviceIndex |-> 0, reverseAPIChannelIndex |-> 0]}

\* The channelSettingsKeys of the requests
KeySets ==
    {{"log2Interp"}, {"log2Interp", "filterChainHash"},
     {"gainDB", "title", "rgbColor"},
     {"useReverseAPI", "reverseAPIAddress", "reverseAPIPort",
      "reverseAPIDeviceIndex", "reverseAPIChannelIndex"}}

\* Settings the GUI sends
GuiSettings ==
    {[DefaultSettings EXCEPT !.m_fileName = "rec.sdriq", !.m_loop = FALSE,
                             !.m_gainDB = 20, !.m_useReverseAPI = TRUE]}

\* Settings a preset holds
StoredSettings ==
    {[DefaultSettings EXCEPT !.m_log2Interp = 1, !.m_filterChainHash = U32Of(2),
                             !.m_title = "t1"]}

SampleRates == {48000}
CenterFrequencies == {435000000}
OtherKinds == {"MsgSampleRateNotification"}

\* FileSourceSettings::serialize
serialize(settings) == [version |-> 1, fields |-> settings]

\* FileSourceSettings::deserialize: whether the blob is valid, and the
\* settings it leaves
settingsDeserialize(data) ==
    IF data.version = 1
    THEN [ok |-> TRUE, settings |-> data.fields]
    ELSE [ok |-> FALSE, settings |-> DefaultSettings]

Blobs == {serialize(s) : s \in StoredSettings}
            \cup {[version |-> 0, fields |-> DefaultSettings]}

\* the blob deserialize was given, as the argument of a call
QByteArray(data) == [kind |-> "QByteArray", data |-> data]

MsgConfigureFileSource(settings, force) ==
    [kind |-> "MsgConfigureFileSource", settings |-> settings, force |-> force]

IsConfigure(msg) ==
    msg.kind \in {"MsgConfigureFileSource", "MsgConfigureFileSourceBaseband"}

\* no configure message waits in the input queue or the baseband's queue
Drained ==
    /\ \A i \in 1..Len(inputQueue) : ~IsConfigure(inputQueue[i])
    /\ \A i \in 1..Len(bbQueue) : ~IsConfigure(bbQueue[i])

otherVars == <<valVars, mqVars, lifeVars, caVars, repVars, afcVars, patchVars>>

---------------------------------------------------------------------------
(* The operations of FileSource, and its environment.                      *)

\* the arguments of a call of webapiSettingsPutPatch
PutPatchRequest(force, channelSettingsKeys, response) ==
    [kind |-> "PutPatchRequest", force |-> force,
     channelSettingsKeys |-> channelSettingsKeys, response |-> response]

\* FileSource::webapiSettingsPutPatch
webapiSettingsPutPatch(force, channelSettingsKeys, response) ==
    LET settings == webapiUpdateChannelSettings(m_settings, channelSettingsKeys,
                                                response)
    IN  /\ nSent < MaxSends
        /\ nSent' = nSent + 1
        /\ Len(inputQueue) < MaxQueue
        /\ Len(guiQueue) < MaxGuiQueue
        /\ inputQueue' = push(inputQueue, MsgConfigureFileSource(settings, force))
        /\ guiQueue' = IF guiSet
                       THEN push(guiQueue, MsgConfigureFileSource(settings, force))
                       ELSE guiQueue
        /\ msgLog' = IF guiSet
                     THEN Log({"msg", "msgToGUI"}, <<Pushed("msg", "input"),
                                                     Pushed("msgToGUI", "gui")>>)
                     ELSE Log({"msg"}, <<Pushed("msg", "input")>>)
        /\ ret' = Returned("webapiSettingsPutPatch",
                            PutPatchRequest(force, channelSettingsKeys, response),
                            200)
        /\ lastEnqueued' = settings
        /\ pulled' = <<>>
        /\ UNCHANGED <<m_settings, m_linearGain, m_basebandSampleRate,
                       m_frequencyOffset, centerFrequency, guiSet, bbQueue,
                       reverseSent, bbSettings, threadRunning>>

\* a deserialize that, given a blob it cannot read, resets the settings and
\* enqueues nothing
deserialize_SilentFailure(data) ==
    LET d == settingsDeserialize(data)
    IN  /\ nSent < MaxSends
        /\ nSent' = nSent + 1
        /\ Len(inputQueue) < MaxQueue
        /\ m_settings' = d.settings
        /\ IF d.ok
             THEN /\ inputQueue' = push(inputQueue,
                                        MsgConfigureFileSource(d.settings, TRUE))
                  /\ msgLog' = Log({"msg"}, <<Pushed("msg", "input")>>)
             ELSE /\ inputQueue' = inputQueue
                  /\ msgLog' = NoLog
        /\ ret' = Returned("deserialize", QByteArray(data), d.ok)
        /\ lastEnqueued' = d.settings
        /\ pulled' = <<>>
        /\ UNCHANGED <<m_linearGain, m_basebandSampleRate, m_frequencyOffset,
                       centerFrequency, guiSet, bbQueue, guiQueue, reverseSent,
                       bbSettings, threadRunning>>

\* FileSource::deserialize
deserialize(data) ==
    LET d == settingsDeserialize(data)
    IN  /\ nSent < MaxSends
        /\ nSent' = nSent + 1
        /\ Len(inputQueue) < MaxQueue
        /\ m_settings' = d.settings
        /\ inputQueue' = push(inputQueue, MsgConfigureFileSource(d.settings, TRUE))
        /\ msgLog' = Log({"msg"}, <<Pushed("msg", "input")>>)
        /\ ret' = Returned("deserialize", QByteArray(data), d.ok)
        /\ lastEnqueued' = d.settings
        /\ pulled' = <<>>
        /\ UNCHANGED <<m_linearGain, m_basebandSampleRate, m_frequencyOffset,
                       centerFrequency, guiSet, bbQueue, guiQueue, reverseSent,
                       bbSettings, threadRunning>>

\* The owner of the input queue takes its next message to handleMessage
HandleInputMessages ==
    /\ inputQueue # <<>>
    /\ Len(bbQueue) < MaxQueue
    /\ Len(guiQueue) < MaxGuiQueue
    /\ inputQueue' = popRest(inputQueue)
    /\ handleMessage(popMsg(inputQueue))
    /\ pulled' = <<>>
    /\ UNCHANGED <<guiSet, bbSettings, threadRunning,
                   lastEnqueued, nSent>>

\* FileSource::pull: the baseband source produces samples under its settings
pull ==
    /\ pulled' = <<[settings |-> bbSettings, drained |-> Drained]>>
    /\ ret' = Returned("pull", NoCmd, 0)
    /\ msgLog' = NoLog
    /\ UNCHANGED <<nSent, m_settings, m_linearGain, m_basebandSampleRate,
                   m_frequencyOffset, centerFrequency, guiSet, inputQueue,
                   bbQueue, guiQueue, reverseSent, bbSettings,
                   threadRunning, lastEnqueued>>

\* The baseband source, on its worker thread, handles its next message
BasebandHandleInputMessages ==
    /\ threadRunning
    /\ bbQueue # <<>>
    /\ bbQueue' = popRest(bbQueue)
    /\ bbSettings' = IF popMsg(bbQueue).kind = "MsgConfigureFileSourceBaseband"
                     THEN popMsg(bbQueue).settings ELSE bbSettings
    /\ pulled' = <<>>
    /\ ret' = NotReturned
    /\ msgLog' = NoLog
    /\ UNCHANGED <<nSent, m_settings, m_linearGain, m_basebandSampleRate,
                   m_frequencyOffset, centerFrequency, guiSet, inputQueue,
                   guiQueue, reverseSent, threadRunning, lastEnqueued>>

\* FileSource::start, as one step
start ==
    /\ ~threadRunning
    /\ threadRunning' = TRUE
    /\ pulled' = <<>>
    /\ ret' = NotReturned
    /\ msgLog' = NoLog
    /\ UNCHANGED <<nSent, m_settings, m_linearGain, m_basebandSampleRate,
                   m_frequencyOffset, centerFrequency, guiSet, inputQueue,
                   bbQueue, guiQueue, reverseSent, bbSettings,
                   lastEnqueued>>

\* FileSource::stop, as one step
stop ==
    /\ threadRunning
    /\ threadRunning' = FALSE
    /\ pulled' = <<>>
    /\ ret' = NotReturned
    /\ msgLog' = NoLog
    /\ UNCHANGED <<nSent, m_settings, m_linearGain, m_basebandSampleRate,
                   m_frequencyOffset, centerFrequency, guiSet, inputQueue,
                   bbQueue, guiQueue, reverseSent, bbSettings,
                   lastEnqueued>>

\* Something pushes msg to the input queue
Send(msg) ==
    /\ nSent < MaxSends
        /\ nSent' = nSent + 1
        /\ Len(inputQueue) < MaxQueue
    /\ inputQueue' = push(inputQueue, msg)
    /\ lastEnqueued' = IF msg.kind = "MsgConfigureFileSource"
                       THEN msg.settings ELSE lastEnqueued
    /\ pulled' = <<>>
    /\ ret' = NotReturned
    /\ msgLog' = NoLog
    /\ UNCHANGED <<m_settings, m_linearGain, m_basebandSampleRate,
                   m_frequencyOffset, centerFrequency, guiSet, bbQueue,
                   guiQueue, reverseSent, bbSettings,
                   threadRunning>>

\* The device engine notifies a sample rate
DeviceNotifies ==
    \E r \in SampleRates, f \in CenterFrequencies :
        Send([kind |-> "DSPSignalNotification", sampleRate |-> r,
              centerFrequency |-> f])

\* The GUI applies settings
GuiConfigures ==
    \E s \in GuiSettings, force \in BOOLEAN : Send(MsgConfigureFileSource(s, force))

\* The GUI's single-field commands
GuiCommands ==
    \/ Send([kind |-> "MsgConfigureFileSourceName", fileName |-> "rec.sdriq"])
    \/ Send([kind |-> "MsgConfigureFileSourceWork", working |-> TRUE])
    \/ Send([kind |-> "MsgConfigureFileSourceSeek", millis |-> 500])
    \/ Send([kind |-> "MsgConfigureFileSourceStreamTiming"])

\* A message of a kind handleMessage does not know
OtherSends ==
    Send([kind |-> "MsgSampleRateNotification", sampleRate |-> 96000])

\* setMessageQueueToGUI: the GUI attaches its queue
setMessageQueueToGUI ==
    /\ ~guiSet
    /\ guiSet' = TRUE
    /\ pulled' = <<>>
    /\ ret' = NotReturned
    /\ msgLog' = NoLog
    /\ UNCHANGED <<nSent, m_settings, m_linearGain, m_basebandSampleRate,
                   m_frequencyOffset, centerFrequency, inputQueue, bbQueue,
                   guiQueue, reverseSent, bbSettings,
                   threadRunning, lastEnqueued>>

\* The GUI takes a message off its queue
GuiPops ==
    /\ guiQueue # <<>>
    /\ guiQueue' = popRest(guiQueue)
    /\ pulled' = <<>>
    /\ ret' = NotReturned
    /\ msgLog' = NoLog
    /\ UNCHANGED <<nSent, m_settings, m_linearGain, m_basebandSampleRate,
                   m_frequencyOffset, centerFrequency, guiSet, inputQueue,
                   bbQueue, reverseSent, bbSettings,
                   threadRunning, lastEnqueued>>

\* A PATCH request names some of the settings; force is off
WebapiPatches ==
    \E keys \in KeySets, response \in Requests :
        webapiSettingsPutPatch(FALSE, keys, response)

\* A PUT request names all the settings; force is on
WebapiPuts ==
    \E response \in Requests :
        webapiSettingsPutPatch(TRUE, UNION KeySets, response)

Deserializes == \E data \in Blobs : deserialize(data)

\* Values the variables of the other specifications rest at
ValIdle == valIn = DefaultSettings /\ valOut = DefaultSettings /\ valDone = FALSE
MqIdle == mq = <<>> /\ mqSent = <<>> /\ mqRecv = <<>>
LifeIdle == /\ ctl = "idle" /\ exited = FALSE /\ resetSinceStop = FALSE
            /\ lastCall = "none" /\ runs = 0 /\ nCalls = 0
            /\ nWork = 0
CaIdle == /\ caCfg = <<>> /\ caBuilt = <<>> /\ caMutex = "free"
          /\ caQueue = <<>> /\ hmPc = "idle" /\ hmMsg = <<>>
          /\ feedPc = "idle" /\ feedSeen = <<>> /\ nFeeds = 0
          /\ nCfgs = 0
RepIdle == repIn = <<>> /\ repOut = <<>> /\ repDone = FALSE
PatchIdle == patchLog = <<>>
AfcIdle == /\ afcRunning = FALSE /\ afcTimer = FALSE /\ afcPending = FALSE
           /\ afcTx = FALSE /\ afcSettings = <<>> /\ afcQueue = <<>>
           /\ afcIssued = <<>> /\ afcLast = "none" /\ nAfc = 0

\* The state the constructor leaves: applySettings(m_settings, true) has run
FsInit ==
    /\ m_settings = DefaultSettings
    /\ m_linearGain = powerFromdB(DefaultSettings.m_gainDB)
    /\ m_basebandSampleRate = 0
    /\ m_frequencyOffset = 0
    /\ centerFrequency = 0
    /\ guiSet = FALSE
    /\ inputQueue = <<>>
    /\ bbQueue = <<[kind |-> "MsgConfigureFileSourceBaseband",
                    settings |-> DefaultSettings, force |-> TRUE]>>
    /\ guiQueue = <<>>
    /\ reverseSent = <<>>
    /\ ret = NotReturned
    /\ msgLog = NoLog
    /\ bbSettings = DefaultSettings
    /\ pulled = <<>>
    /\ threadRunning = FALSE
    /\ lastEnqueued = DefaultSettings
    /\ nSent = 0

Init == FsInit /\ ValIdle /\ MqIdle /\ LifeIdle /\ CaIdle
        /\ RepIdle /\ AfcIdle /\ PatchIdle

Next ==
    \/ (WebapiPatches /\ UNCHANGED otherVars)
    \/ (WebapiPuts /\ UNCHANGED otherVars)
    \/ (Deserializes /\ UNCHANGED otherVars)
    \/ (HandleInputMessages /\ UNCHANGED otherVars)
    \/ (pull /\ UNCHANGED otherVars)
    \/ (BasebandHandleInputMessages /\ UNCHANGED otherVars)
    \/ (start /\ UNCHANGED otherVars)
    \/ (stop /\ UNCHANGED otherVars)
    \/ (DeviceNotifies /\ UNCHANGED otherVars)
    \/ (GuiConfigures /\ UNCHANGED otherVars)
    \/ (GuiCommands /\ UNCHANGED otherVars)
    \/ (OtherSends /\ UNCHANGED otherVars)
    \/ (setMessageQueueToGUI /\ UNCHANGED otherVars)
    \/ (GuiPops /\ UNCHANGED otherVars)

Spec == Init /\ [][Next]_vars


---------------------------------------------------------------------------
(* Properties of FileSource, checked under Spec.                           *)

RecognisedKinds ==
    {"DSPSignalNotification", "MsgConfigureFileSource",
     "MsgConfigureFileSourceName", "MsgConfigureFileSourceWork",
     "MsgConfigureFileSourceSeek", "MsgConfigureFileSourceStreamTiming"}

\* this step is handleMessage, given the message at the head of the input queue
IsHandleStep == inputQueue # <<>> /\ inputQueue' = Tail(inputQueue)

\* C1: handleMessage returns true for each of the six kinds it recognises;
\* for a message of any other kind it returns false, pushes nothing to the
\* baseband queue or the GUI queue and changes no state of FileSource.
C1_UnrecognisedNotHandled ==
    [][IsHandleStep =>
          /\ ret'.of = "handleMessage"
          /\ ret'.cmd = Head(inputQueue)
          /\ IF Head(inputQueue).kind \in RecognisedKinds
             THEN ret'.val = TRUE
             ELSE /\ ret'.val = FALSE
                  /\ UNCHANGED <<m_settings, m_linearGain, m_basebandSampleRate,
                                 m_frequencyOffset, centerFrequency, guiSet,
                                 bbQueue, guiQueue, reverseSent, bbSettings,
                                 threadRunning>>]_vars

\* C1 witness: a MsgSampleRateNotification was handed to handleMessage, which
\* returned false
C1_Witness ==
    /\ ret.of = "handleMessage"
    /\ ret.cmd.kind = "MsgSampleRateNotification"
    /\ ret.val = FALSE

HashInRange(settings) ==
    NatOf(settings.m_filterChainHash) < Pow(3, settings.m_log2Interp)

\* C4 as claimed: every settings snapshot applySettings stores in m_settings
\* or forwards to the baseband source has m_filterChainHash < 3^m_log2Interp.
C4_HashAlwaysInRange ==
    /\ HashInRange(m_settings)
    /\ \A i \in 1..Len(bbQueue) :
          bbQueue[i].kind = "MsgConfigureFileSourceBaseband"
              => HashInRange(bbQueue[i].settings)

\* C6: handling a DSPSignalNotification of rate r stores r in
\* m_basebandSampleRate and returns true; in the same step exactly one
\* MsgSampleRateNotification carrying r is appended to the GUI queue when one
\* is set, and nothing is pushed to it when none is.
C6_NotificationWithRate ==
    [][(IsHandleStep /\ Head(inputQueue).kind = "DSPSignalNotification") =>
          /\ m_basebandSampleRate' = Head(inputQueue).sampleRate
          /\ ret'.of = "handleMessage" /\ ret'.val = TRUE
          /\ guiQueue' = IF guiSet
                         THEN Append(guiQueue,
                                     [kind |-> "MsgSampleRateNotification",
                                      sampleRate |-> Head(inputQueue).sampleRate])
                         ELSE guiQueue]_vars

\* C6 witness: with a GUI queue set, a DSPSignalNotification has just been
\* handled, the rate changed, and the GUI queue ends with its notification
C6_Witness ==
    /\ ret.of = "handleMessage"
    /\ ret.cmd.kind = "DSPSignalNotification"
    /\ guiSet
    /\ m_basebandSampleRate = ret.cmd.sampleRate
    /\ guiQueue # <<>>
    /\ guiQueue[Len(guiQueue)] = [kind |-> "MsgSampleRateNotification",
                                  sampleRate |-> m_basebandSampleRate]

\* C7 as claimed: webapiSettingsPutPatch and deserialize change none of
\* m_settings, m_linearGain and the baseband source's queue, each only appends
\* one MsgConfigureFileSource to the input queue, and m_settings changes only
\* in a handleMessage given a MsgConfigureFileSource.
C7_ConfiguredByMessageOnly ==
    [][/\ ret'.of \in {"webapiSettingsPutPatch", "deserialize"} =>
            /\ UNCHANGED <<m_settings, m_linearGain, bbQueue>>
            /\ Len(inputQueue') = Len(inputQueue) + 1
            /\ inputQueue'[Len(inputQueue')].kind = "MsgConfigureFileSource"
       /\ m_settings' # m_settings =>
            /\ ret'.of = "handleMessage"
            /\ ret'.cmd.kind = "MsgConfigureFileSource"]_vars


\* the pushes the call that has just returned made of object obj
PushesOf(obj) == {i \in DOMAIN msgLog.pushed : msgLog.pushed[i].obj = obj}

\* C11: every object a call of FileSource pushes was created by that call
\* for the push (so the message handleMessage was given is never pushed),
\* and every object a call created is pushed exactly once, to one queue.
C11_OneQueuePerMessage ==
    /\ \A i \in DOMAIN msgLog.pushed : msgLog.pushed[i].obj \in msgLog.created
    /\ \A obj \in msgLog.created : Cardinality(PushesOf(obj)) = 1

\* C11 witness: handleMessage, given a DSPSignalNotification with a GUI queue
\* set, has pushed two objects, to the baseband source and to the GUI
C11_Witness ==
    /\ ret.of = "handleMessage"
    /\ ret.cmd.kind = "DSPSignalNotification"
    /\ Cardinality(msgLog.created) = 2
    /\ {msgLog.pushed[i].queue : i \in DOMAIN msgLog.pushed} = {"baseband", "gui"}

\* this step is handleMessage given a MsgConfigureFileSource
IsConfigureStep ==
    IsHandleStep /\ Head(inputQueue).kind = "MsgConfigureFileSource"

Relayed(cfg) ==
    [kind |-> "MsgConfigureFileSourceBaseband", settings |-> cfg.settings,
     force |-> cfg.force]

\* C15: every MsgConfigureFileSource handled appends one
\* MsgConfigureFileSourceBaseband with the same settings and force flag to
\* the end of the baseband source's queue, and nothing else, also when the
\* settings are those m_settings already holds and force is off.
C15_RelayOneToOne ==
    [][IsConfigureStep =>
          bbQueue' = Append(bbQueue, Relayed(Head(inputQueue)))]_vars

\* C15 witness: the same settings were handled twice, the second time with
\* force off, and the baseband source's queue holds both relays in order
C15_Witness ==
    /\ ret.of = "handleMessage"
    /\ ret.cmd.kind = "MsgConfigureFileSource"
    /\ ~ret.cmd.force
    /\ Len(bbQueue) >= 2
    /\ bbQueue[Len(bbQueue)] = Relayed(ret.cmd)
    /\ bbQueue[Len(bbQueue) - 1].kind = "MsgConfigureFileSourceBaseband"
    /\ bbQueue[Len(bbQueue) - 1].settings = ret.cmd.settings

\* C16: when handleMessage has processed a MsgConfigureFileSource,
\* m_settings equals the settings of that message, whatever its force flag
\* and whatever m_settings held from the messages before.
C16_LastAppliedWins ==
    [][IsConfigureStep => m_settings' = Head(inputQueue).settings]_vars

\* C16 witness: the second of two messages was processed with force off and
\* m_settings holds its settings, which differ from the defaults
C16_Witness ==
    /\ ret.of = "handleMessage"
    /\ ret.cmd.kind = "MsgConfigureFileSource"
    /\ ~ret.cmd.force
    /\ nSent = 2
    /\ inputQueue = <<>>
    /\ m_settings = ret.cmd.settings
    /\ m_settings # DefaultSettings

\* the settings that are not reverse API settings, by their key
NonReverseField(k) ==
    CASE k = "log2Interp" -> "m_log2Interp"
      [] k = "filterChainHash" -> "m_filterChainHash"
      [] k = "gainDB" -> "m_gainDB"
      [] k = "rgbColor" -> "m_rgbColor"
      [] k = "title" -> "m_title"
      [] k = "loop" -> "m_loop"
      [] k = "fileName" -> "m_fileName"

NonReverseKeys == {"log2Interp", "filterChainHash", "gainDB", "rgbColor",
                   "title", "loop", "fileName"}

\* C17 as claimed: when applySettings runs with m_useReverseAPI on, every
\* setting that is not a reverse API setting and whose value differs from
\* m_settings, and every such setting when force is on, is set in the body
\* of the PATCH that webapiReverseSendSettings sends.
C17_ReverseSendsModified ==
    [][(IsConfigureStep /\ Head(inputQueue).settings.m_useReverseAPI) =>
          LET settings == Head(inputQueue).settings
              force == Head(inputQueue).force
              body == reverseSent'[1].request.body
          IN  \A k \in NonReverseKeys :
                 (m_settings[NonReverseField(k)] # settings[NonReverseField(k)]
                     \/ force)
                    => /\ k \in DOMAIN body
                       /\ body[k] = settings[NonReverseField(k)]]_vars

\* whether a field of the settings handleMessage is given differs from m_settings
Differs(field) == m_settings[field] # Head(inputQueue).settings[field]

\* C18: applySettings sets m_linearGain to powerFromdB of the new m_gainDB
\* when m_gainDB differs from m_settings.m_gainDB or force is on, and leaves
\* it as it is otherwise; the reverseAPIKeys list it hands to
\* webapiReverseSendSettings holds "loop", "fileName", "gainDB" exactly for
\* the fields that differ, or all three when force is on, and no other key.
C18_ChangeDetection ==
    [][IsConfigureStep =>
          LET settings == Head(inputQueue).settings
              force == Head(inputQueue).force
          IN  /\ m_linearGain' = IF Differs("m_gainDB") \/ force
                                 THEN powerFromdB(settings.m_gainDB)
                                 ELSE m_linearGain
              /\ settings.m_useReverseAPI =>
                    LET keys == reverseSent'[1].channelSettingsKeys
                    IN  /\ Contains(keys, "loop") <=> (Differs("m_loop") \/ force)
                        /\ Contains(keys, "fileName")
                              <=> (Differs("m_fileName") \/ force)
                        /\ Contains(keys, "gainDB")
                              <=> (Differs("m_gainDB") \/ force)
                        /\ \A i \in DOMAIN keys :
                              keys[i] \in {"loop", "fileName", "gainDB"}]_vars

\* C18 witness: with force off, settings that change the gain only were
\* applied: the gain was recomputed and "gainDB" is the only key
C18_Witness ==
    /\ ret.of = "handleMessage"
    /\ ret.cmd.kind = "MsgConfigureFileSource"
    /\ ~ret.cmd.force
    /\ m_linearGain = 10
    /\ reverseSent # <<>>
    /\ reverseSent[1].channelSettingsKeys = <<"gainDB">>

\* C19: handling a DSPSignalNotification, MsgConfigureFileSourceName,
\* MsgConfigureFileSourceWork or MsgConfigureFileSourceSeek appends one
\* message of the corresponding baseband kind with the same payload to the
\* baseband source's queue; the Name, Work and Seek branches push nothing to
\* the GUI queue and leave m_settings, m_basebandSampleRate and
\* m_frequencyOffset unchanged.
C19_CommandForwarding ==
    [][IsHandleStep =>
          LET cmd == Head(inputQueue)
              quiet == UNCHANGED <<guiQueue, m_settings, m_basebandSampleRate,
                                   m_frequencyOffset>>
          IN  /\ cmd.kind = "DSPSignalNotification" =>
                    bbQueue' = Append(bbQueue,
                        [kind |-> "DSPSignalNotification",
                         sampleRate |-> cmd.sampleRate,
                         centerFrequency |-> cmd.centerFrequency])
              /\ cmd.kind = "MsgConfigureFileSourceName" =>
                    /\ bbQueue' = Append(bbQueue,
                          [kind |-> "FileSourceBaseband::MsgConfigureFileSourceName",
                           fileName |-> cmd.fileName])
                    /\ quiet
              /\ cmd.kind = "MsgConfigureFileSourceWork" =>
                    /\ bbQueue' = Append(bbQueue,
                          [kind |-> "FileSourceBaseband::MsgConfigureFileSourceWork",
                           working |-> cmd.working])
                    /\ quiet
              /\ cmd.kind = "MsgConfigureFileSourceSeek" =>
                    /\ bbQueue' = Append(bbQueue,
                          [kind |-> "FileSourceBaseband::MsgConfigureFileSourceSeek",
                           millis |-> cmd.millis])
                    /\ quiet]_vars

\* C19 witness: with a GUI queue set and a sample rate known, a seek command
\* was handled and its baseband message is the last of the baseband queue
C19_Witness ==
    /\ ret.of = "handleMessage"
    /\ ret.cmd.kind = "MsgConfigureFileSourceSeek"
    /\ guiSet
    /\ m_basebandSampleRate > 0
    /\ bbQueue # <<>>
    /\ bbQueue[Len(bbQueue)] =
          [kind |-> "FileSourceBaseband::MsgConfigureFileSourceSeek",
           millis |-> ret.cmd.millis]

\* C20: every call of deserialize appends exactly one MsgConfigureFileSource
\* with force on to the input queue; when the blob deserializes, the message
\* carries the deserialized settings and the call returns true; when it does
\* not, m_settings is reset to the defaults, the message carries the defaults
\* and the call returns false.
C20_DeserializeAlwaysEnqueues ==
    [][ret'.of = "deserialize" =>
          LET data == ret'.cmd.data
              valid == data.version = 1
          IN  /\ ret'.val = valid
              /\ valid =>
                    inputQueue' = Append(inputQueue,
                        MsgConfigureFileSource(data.fields, TRUE))
              /\ ~valid =>
                    /\ m_settings' = DefaultSettings
                    /\ inputQueue' = Append(inputQueue,
                          MsgConfigureFileSource(DefaultSettings, TRUE))]_vars

\* C20 witness: with settings other than the defaults in force, deserialize
\* was given a blob it rejects and returned false; m_settings is back at the
\* defaults and the message carrying them is the last of the input queue
C20_Witness ==
    /\ ret.of = "deserialize"
    /\ ~ret.val
    /\ m_linearGain # powerFromdB(DefaultSettings.m_gainDB)
    /\ m_settings = DefaultSettings
    /\ inputQueue # <<>>
    /\ inputQueue[Len(inputQueue)] = MsgConfigureFileSource(DefaultSettings, TRUE)

\* the key under which a request names a field of the settings; m_fileName
\* and m_loop have none in webapiUpdateChannelSettings
KeyOf(field) ==
    CASE field = "m_log2Interp" -> "log2Interp"
      [] field = "m_filterChainHash" -> "filterChainHash"
      [] field = "m_gainDB" -> "gainDB"
      [] field = "m_rgbColor" -> "rgbColor"
      [] field = "m_title" -> "title"
      [] field = "m_useReverseAPI" -> "useReverseAPI"
      [] field = "m_reverseAPIAddress" -> "reverseAPIAddress"
      [] field = "m_reverseAPIPort" -> "reverseAPIPort"
      [] field = "m_reverseAPIDeviceIndex" -> "reverseAPIDeviceIndex"
      [] field = "m_reverseAPIChannelIndex" -> "reverseAPIChannelIndex"
      [] OTHER -> "none"

\* C21: the settings webapiSettingsPutPatch enqueues, which are m_settings
\* as updated by webapiUpdateChannelSettings, keep every field whose key is
\* not in channelSettingsKeys and take every named field from the request,
\* except that filterChainHash, when named, is the request's hash clamped by
\* validateFilterChainHash against the log2Interp the same call has already
\* updated.
C21_UpdateOnlyNamedFields ==
    [][ret'.of = "webapiSettingsPutPatch" =>
          LET keys == ret'.cmd.channelSettingsKeys
              response == ret'.cmd.response
              settings == inputQueue'[Len(inputQueue')].settings
          IN  /\ \A field \in DOMAIN m_settings :
                    KeyOf(field) \notin keys => settings[field] = m_settings[field]
              /\ \A field \in DOMAIN m_settings \
                                 {"m_filterChainHash", "m_useReverseAPI"} :
                    KeyOf(field) \in keys
                       => settings[field] = response[KeyOf(field)]
              /\ "useReverseAPI" \in keys
                    => settings.m_useReverseAPI = (response.useReverseAPI # 0)
              /\ "filterChainHash" \in keys
                    => settings.m_filterChainHash =
                          validateFilterChainHash(
                             [m_settings EXCEPT
                                 !.m_log2Interp = settings.m_log2Interp,
                                 !.m_filterChainHash =
                                     U32Of(response.filterChainHash)]
                          ).m_filterChainHash]_vars

\* C21 witness: a request named log2Interp and filterChainHash while other
\* settings differed from the defaults; the hash was clamped against the new
\* log2Interp, not the old one
C21_Witness ==
    /\ ret.of = "webapiSettingsPutPatch"
    /\ ret.cmd.channelSettingsKeys = {"log2Interp", "filterChainHash"}
    /\ m_settings.m_fileName # DefaultSettings.m_fileName
    /\ m_settings.m_log2Interp # ret.cmd.response.log2Interp
    /\ inputQueue # <<>>
    /\ LET settings == inputQueue[Len(inputQueue)].settings
       IN  /\ settings.m_log2Interp = ret.cmd.response.log2Interp
           /\ settings.m_filterChainHash # U32Of(ret.cmd.response.filterChainHash)
           /\ settings.m_filterChainHash #
                 validateFilterChainHash(
                    [m_settings EXCEPT
                        !.m_filterChainHash =
                            U32Of(ret.cmd.response.filterChainHash)]
                 ).m_filterChainHash
           /\ settings.m_fileName = m_settings.m_fileName

\* C23: after every message handled by handleMessage, m_frequencyOffset is
\* m_basebandSampleRate times getShiftFactor(m_log2Interp, m_filterChainHash)
\* of the current m_settings, also after a MsgConfigureFileSource that
\* changes log2Interp or filterChainHash with no DSPSignalNotification after.
C23_OffsetFollowsSettings ==
    ret.of = "handleMessage"
       => m_frequencyOffset = calculateFrequencyOffset(m_settings,
                                                       m_basebandSampleRate)

---------------------------------------------------------------------------
(* SpecValidate: validateFilterChainHash on its own, given any settings.   *)

\* m_filterChainHash values given to validateFilterChainHash: small ones,
\* those about 3^20 and 3^21 mod 2^32, and the largest
HashSamples ==
    {U32Of(0), U32Of(1), U32Of(2), U32Of(3), U32Of(8), U32Of(9), U32Of(26),
     U32Of(27), [hi |-> 53204, lo |-> 7056], [hi |-> 53204, lo |-> 7057],
     [hi |-> 28540, lo |-> 21170], [hi |-> 28540, lo |-> 21171],
     [hi |-> 30517, lo |-> 37888], [hi |-> Half - 1, lo |-> Half - 1]}

ValInit ==
    /\ valIn \in {[DefaultSettings EXCEPT !.m_log2Interp = n,
                                           !.m_filterChainHash = h,
                                           !.m_gainDB = g] :
                     n \in 0..MaxLog2Val, h \in HashSamples, g \in {0, 10}}
    /\ valOut = valIn
    /\ valDone = FALSE

\* validateFilterChainHash(settings) is called
ValidateStep ==
    /\ ~valDone
    /\ valOut' = validateFilterChainHash(valIn)
    /\ valDone' = TRUE
    /\ UNCHANGED <<valIn, fsVars, mqVars, lifeVars, caVars, repVars, afcVars,
                   patchVars>>

InitValidate == FsInit /\ ValInit /\ MqIdle /\ LifeIdle /\ CaIdle
        /\ RepIdle /\ AfcIdle /\ PatchIdle

NextValidate == ValidateStep

SpecValidate == InitValidate /\ [][NextValidate]_vars

\* Numbers beyond 32 bits, as three 16-bit digits, most significant first
BigOfU32(u) == <<0, u.hi, u.lo>>

BigMul3(b) ==
    LET l0 == b[3] * 3
        l1 == b[2] * 3 + (l0 \div Half)
        l2 == b[1] * 3 + (l1 \div Half)
    IN  <<l2, l1 % Half, l0 % Half>>

BigLess(a, b) ==
    \/ a[1] < b[1]
    \/ a[1] = b[1] /\ a[2] < b[2]
    \/ a[1] = b[1] /\ a[2] = b[2] /\ a[3] < b[3]

\* 3^n, exactly
RECURSIVE Pow3Big(_)
Pow3Big(n) == IF n = 0 THEN <<0, 0, 1>> ELSE BigMul3(Pow3Big(n - 1))

\* min(h, 3^n - 1) for a 32-bit h
MinHash(h, n) ==
    IF BigLess(BigOfU32(h), Pow3Big(n)) THEN h
    ELSE U32Dec([hi |-> Pow3Big(n)[2], lo |-> Pow3Big(n)[3]])

\* C5 as claimed: for every m_log2Interp n and m_filterChainHash h,
\* validateFilterChainHash leaves the hash min(h, 3^n - 1) and changes no
\* other field.
C5_ClampIsMin ==
    valDone =>
        valOut = [valIn EXCEPT !.m_filterChainHash =
                     MinHash(valIn.m_filterChainHash, valIn.m_log2Interp)]


---------------------------------------------------------------------------
(* SpecQueue: one message queue with several producer threads and one      *)
(* consumer, as FileSource's input queue, the baseband source's input      *)
(* queue and the GUI queue are used.                                       *)

\* the threads that push: the web API, the GUI and the device engine
Producers == {"webapi", "gui", "dsp"}

QueueMsg(p, k) == [from |-> p, seq |-> k]

\* how many messages producer p has pushed so far
SentBy(p) == Cardinality({i \in DOMAIN mqSent : mqSent[i].from = p})

MqInit ==
    /\ mq = <<>>
    /\ mqSent = <<>>
    /\ mqRecv = <<>>

\* a producer pushes its next message
MqPush ==
    \E p \in Producers :
        /\ SentBy(p) < MaxSeq
        /\ mq' = push(mq, QueueMsg(p, SentBy(p) + 1))
        /\ mqSent' = Append(mqSent, QueueMsg(p, SentBy(p) + 1))
        /\ UNCHANGED <<mqRecv, fsVars, valVars, lifeVars, caVars,
                   repVars, afcVars,
                   patchVars>>

\* the consumer pops one message
MqPop ==
    /\ mq # <<>>
    /\ mqRecv' = Append(mqRecv, popMsg(mq))
    /\ mq' = popRest(mq)
    /\ UNCHANGED <<mqSent, fsVars, valVars, lifeVars, caVars,
                   repVars, afcVars,
                   patchVars>>

InitQueue == FsInit /\ ValIdle /\ MqInit /\ LifeIdle /\ CaIdle
        /\ RepIdle /\ AfcIdle /\ PatchIdle

NextQueue == MqPush \/ MqPop

SpecQueue == InitQueue /\ [][NextQueue]_vars

FromProducer(s, p) == SelectSeq(s, LAMBDA m : m.from = p)

\* C3: the messages of one producer that were received, followed by those
\* still in the queue, are exactly the messages that producer pushed, in the
\* order it pushed them: none lost, none duplicated, none overtaken.
C3_FifoPerProducer ==
    \A p \in Producers :
        FromProducer(mqRecv \o mq, p) = FromProducer(mqSent, p)

\* a producer's messages were received while another producer's message,
\* pushed in between, was also received
C3_Witness ==
    \E p \in Producers, q \in Producers :
        /\ p # q
        /\ Len(FromProducer(mqRecv, p)) >= 2
        /\ Len(FromProducer(mqRecv, q)) >= 1
        /\ \E i, j, k \in DOMAIN mqSent :
              /\ i < j /\ j < k
              /\ mqSent[i].from = p /\ mqSent[j].from = q /\ mqSent[k].from = p


---------------------------------------------------------------------------
(* SpecLife: FileSource::start and FileSource::stop statement by           *)
(* statement, next to the worker thread they start and wait for.           *)
(*   ctl             where the calling thread is: "idle", or the statement *)
(*                   of start()/stop() it executes next                    *)
(*   threadRunning   QThread::isRunning()                                  *)
(*   exited          QThread::exit() was called since the last start       *)
(*   resetSinceStop  m_basebandSource->reset() was executed after the      *)
(*                   worker last finished                                  *)
(*   lastCall        the call that returned last                           *)
(*   runs            times the worker went from Stopped to Running         *)

LifeRest == <<m_settings, m_linearGain, m_basebandSampleRate,
              m_frequencyOffset, centerFrequency, guiSet, inputQueue, bbQueue,
              guiQueue, reverseSent, ret, msgLog, bbSettings, pulled,
              lastEnqueued,
              nSent, valVars, mqVars, caVars, repVars, afcVars,
                   patchVars>>

\* start() is called
StartCall ==
    /\ ctl = "idle"
    /\ nCalls < MaxCalls
    /\ ctl' = "start_reset"
    /\ nCalls' = nCalls + 1
    /\ UNCHANGED <<threadRunning, exited, resetSinceStop, lastCall, runs,
                   nWork, LifeRest>>

\* start() without its first statement
StartReset_Skip ==
    /\ ctl = "start_reset"
    /\ ctl' = "start_thread"
    /\ UNCHANGED <<threadRunning, exited, resetSinceStop, lastCall, runs,
                   nCalls, nWork, LifeRest>>

\* m_basebandSource->reset()
StartReset ==
    /\ ctl = "start_reset"
    /\ resetSinceStop' = TRUE
    /\ ctl' = "start_thread"
    /\ UNCHANGED <<threadRunning, exited, lastCall, runs, nCalls, nWork,
                   LifeRest>>

\* m_thread->start(): nothing if the thread is running, else it runs and its
\* exit flag is cleared; then start() returns
StartThread ==
    /\ ctl = "start_thread"
    /\ IF threadRunning
         THEN UNCHANGED <<threadRunning, exited, runs>>
         ELSE /\ threadRunning' = TRUE
              /\ exited' = FALSE
              /\ runs' = runs + 1
    /\ ctl' = "idle"
    /\ lastCall' = "start"
    /\ UNCHANGED <<resetSinceStop, nCalls, nWork, LifeRest>>

\* stop() is called
StopCall ==
    /\ ctl = "idle"
    /\ nCalls < MaxCalls
    /\ ctl' = "stop_exit"
    /\ nCalls' = nCalls + 1
    /\ UNCHANGED <<threadRunning, exited, resetSinceStop, lastCall, runs,
                   nWork, LifeRest>>

\* m_thread->exit(): asks the thread's event loop to return
StopExit ==
    /\ ctl = "stop_exit"
    /\ exited' = TRUE
    /\ ctl' = "stop_wait"
    /\ UNCHANGED <<threadRunning, resetSinceStop, lastCall, runs, nCalls,
                   nWork, LifeRest>>

\* stop() that returns without waiting for the thread
StopWait_NoWait ==
    /\ ctl = "stop_wait"
    /\ ctl' = "idle"
    /\ lastCall' = "stop"
    /\ UNCHANGED <<threadRunning, exited, resetSinceStop, runs, nCalls,
                   nWork, LifeRest>>

\* m_thread->wait(): returns once the thread is not running; then stop()
\* returns
StopWait ==
    /\ ctl = "stop_wait"
    /\ ~threadRunning
    /\ ctl' = "idle"
    /\ lastCall' = "stop"
    /\ UNCHANGED <<threadRunning, exited, resetSinceStop, runs, nCalls,
                   nWork, LifeRest>>

\* the worker's event loop handles a message or produces a block
WorkerProcess ==
    /\ threadRunning
    /\ ~exited
    /\ nWork < MaxWork
    /\ nWork' = nWork + 1
    /\ UNCHANGED <<ctl, threadRunning, exited, resetSinceStop, lastCall,
                   runs, nCalls, LifeRest>>

\* the worker's event loop returns after exit() and the thread finishes
WorkerFinish ==
    /\ threadRunning
    /\ exited
    /\ threadRunning' = FALSE
    /\ resetSinceStop' = FALSE
    /\ UNCHANGED <<ctl, exited, lastCall, runs, nCalls, nWork, LifeRest>>

InitLife == FsInit /\ ValIdle /\ MqIdle /\ LifeIdle /\ CaIdle
        /\ RepIdle /\ AfcIdle /\ PatchIdle

NextLife ==
    \/ StartCall
    \/ StartReset
    \/ StartThread
    \/ StopCall
    \/ StopExit
    \/ StopWait
    \/ WorkerProcess
    \/ WorkerFinish

SpecLife == InitLife /\ [][NextLife]_vars

\* C9: once stop() has returned, and until start() returns next, the worker
\* thread is not running, whether or not it was running when stop() was
\* called.
C9_StoppedAfterStop ==
    lastCall = "stop" => ~threadRunning

\* stop() has returned after the worker ran and processed
C9_Witness ==
    /\ lastCall = "stop"
    /\ ctl = "idle"
    /\ runs >= 1
    /\ nWork >= 1

\* C10: whenever the worker thread is running, reset() was executed after
\* the thread last finished, so before this run began.
C10_ResetBeforeRun ==
    threadRunning => resetSinceStop

\* the worker runs and processes for the second time, after a stop
C10_Witness ==
    /\ threadRunning
    /\ runs >= 2
    /\ nWork >= 2

\* C25: in any sequence of start() and stop() calls, also start() twice with
\* no stop() between, the baseband source's reset() is never executed while
\* the worker thread is running.
C25_ResetNeverRacesWorker ==
    [][(ctl = "start_reset" /\ resetSinceStop' /\ ctl' = "start_thread")
          => ~threadRunning]_vars


---------------------------------------------------------------------------
(* SpecCA: ChannelAnalyzer::feed on the stream thread next to              *)
(* ChannelAnalyzer::handleMessage applying a MsgConfigureChannelAnalyzer,  *)
(* statement by statement, with m_settingsMutex.                           *)
(*   caCfg     m_Bandwidth, m_LowCutoff, m_spanLog2, m_ssb                 *)
(*   caBuilt   what SSBFilter/DSBFilter and m_nco were last built from     *)
(*   caMutex   who holds m_settingsMutex: "free", "feed", "handleMessage"  *)
(*   caQueue   the queue configure() pushes to                             *)
(*   hmPc, hmMsg      handleMessage's next statement and its message       *)
(*   feedPc, feedSeen feed's next statement and what it has read so far    *)

\* the fields in the order they are written and read
CaOrder == <<"m_Bandwidth", "m_LowCutoff", "m_spanLog2", "m_ssb",
             "filter", "nco">>

CaIndex(k) == CHOOSE i \in DOMAIN CaOrder : CaOrder[i] = k

CaAfter(k, last) ==
    IF CaIndex(k) = Len(CaOrder) THEN last ELSE CaOrder[CaIndex(k) + 1]

\* the configuration the constructor leaves
CaInitial == [m_Bandwidth |-> 5000, m_LowCutoff |-> 300, m_spanLog2 |-> 3,
              m_ssb |-> FALSE]

\* the configurations configure() is called with
CaConfigs == {[m_Bandwidth |-> 3000, m_LowCutoff |-> 300, m_spanLog2 |-> 0,
               m_ssb |-> TRUE],
              [m_Bandwidth |-> 10000, m_LowCutoff |-> 1000, m_spanLog2 |-> 1,
               m_ssb |-> FALSE]}

\* the filter design and the oscillator ratio that follow from four values
FilterOf(cfg) == [Bandwidth |-> cfg.m_Bandwidth, LowCutoff |-> cfg.m_LowCutoff,
                  ssb |-> cfg.m_ssb]

NcoOf(cfg) == [spanLog2 |-> cfg.m_spanLog2]

\* all that a feed call reads, when everything comes from cfg
CaSnapshot(cfg) ==
    [k \in {CaOrder[i] : i \in DOMAIN CaOrder} |->
        CASE k = "filter" -> FilterOf(cfg)
          [] k = "nco" -> NcoOf(cfg)
          [] OTHER -> cfg[k]]

\* the value feed reads for k
CaRead(k) == IF k \in {"filter", "nco"} THEN caBuilt[k] ELSE caCfg[k]

MsgConfigureChannelAnalyzer(cfg) ==
    [kind |-> "MsgConfigureChannelAnalyzer", Bandwidth |-> cfg.m_Bandwidth,
     LowCutoff |-> cfg.m_LowCutoff, spanLog2 |-> cfg.m_spanLog2,
     ssb |-> cfg.m_ssb]

CaInit ==
    /\ caCfg = CaInitial
    /\ caBuilt = [filter |-> FilterOf(CaInitial), nco |-> NcoOf(CaInitial)]
    /\ caMutex = "free"
    /\ caQueue = <<>>
    /\ hmPc = "idle" /\ hmMsg = <<>>
    /\ feedPc = "idle" /\ feedSeen = <<>>
    /\ nFeeds = 0 /\ nCfgs = 0

CaRest == <<fsVars, valVars, mqVars, lifeVars, repVars, afcVars,
                   patchVars>>

\* a configure that also stores the four values at once
configure_Direct(cfg) ==
    /\ nCfgs < MaxCfgs
    /\ nCfgs' = nCfgs + 1
    /\ caQueue' = push(caQueue, MsgConfigureChannelAnalyzer(cfg))
    /\ caCfg' = cfg
    /\ UNCHANGED <<caBuilt, caMutex, hmPc, hmMsg, feedPc, feedSeen,
                   nFeeds, CaRest>>

\* ChannelAnalyzer::configure: pushes one MsgConfigureChannelAnalyzer
configure(cfg) ==
    /\ nCfgs < MaxCfgs
    /\ nCfgs' = nCfgs + 1
    /\ caQueue' = push(caQueue, MsgConfigureChannelAnalyzer(cfg))
    /\ UNCHANGED <<caCfg, caBuilt, caMutex, hmPc, hmMsg, feedPc, feedSeen,
                   nFeeds, CaRest>>

Configures == \E cfg \in CaConfigs : configure(cfg)

\* handleMessage is given the next message of the queue
HmCall ==
    /\ hmPc = "idle"
    /\ caQueue # <<>>
    /\ hmMsg' = <<popMsg(caQueue)>>
    /\ caQueue' = popRest(caQueue)
    /\ hmPc' = "lock"
    /\ UNCHANGED <<caCfg, caBuilt, caMutex, feedPc, feedSeen, nFeeds, nCfgs,
                   CaRest>>

\* handleMessage that does not take m_settingsMutex
HmLock_NoLock ==
    /\ hmPc = "lock"
    /\ hmPc' = CaOrder[1]
    /\ UNCHANGED <<caCfg, caBuilt, caMutex, caQueue, hmMsg, feedPc, feedSeen,
                   nFeeds, nCfgs, CaRest>>

\* m_settingsMutex.lock() in handleMessage
HmLock ==
    /\ hmPc = "lock"
    /\ caMutex = "free"
    /\ caMutex' = "handleMessage"
    /\ hmPc' = CaOrder[1]
    /\ UNCHANGED <<caCfg, caBuilt, caQueue, hmMsg, feedPc, feedSeen, nFeeds,
                   nCfgs, CaRest>>

\* the value the message carries for a field
MsgField(msg, k) ==
    CASE k = "m_Bandwidth" -> msg.Bandwidth
      [] k = "m_LowCutoff" -> msg.LowCutoff
      [] k = "m_spanLog2" -> msg.spanLog2
      [] k = "m_ssb" -> msg.ssb

\* handleMessage's next assignment: one of the four values from the message,
\* then the filter and the oscillator rebuilt from the four values
HmWrite ==
    /\ hmPc \in {CaOrder[i] : i \in DOMAIN CaOrder}
    /\ IF hmPc = "filter"
         THEN /\ caBuilt' = [caBuilt EXCEPT !.filter = FilterOf(caCfg)]
              /\ UNCHANGED caCfg
         ELSE IF hmPc = "nco"
         THEN /\ caBuilt' = [caBuilt EXCEPT !.nco = NcoOf(caCfg)]
              /\ UNCHANGED caCfg
         ELSE /\ caCfg' = [caCfg EXCEPT ![hmPc] = MsgField(hmMsg[1], hmPc)]
              /\ UNCHANGED caBuilt
    /\ hmPc' = CaAfter(hmPc, "unlock")
    /\ UNCHANGED <<caMutex, caQueue, hmMsg, feedPc, feedSeen, nFeeds, nCfgs,
                   CaRest>>

\* m_settingsMutex.unlock() in handleMessage, which then returns
HmUnlock ==
    /\ hmPc = "unlock"
    /\ caMutex' = "free"
    /\ hmPc' = "idle"
    /\ hmMsg' = <<>>
    /\ UNCHANGED <<caCfg, caBuilt, caQueue, feedPc, feedSeen, nFeeds, nCfgs,
                   CaRest>>

\* feed is called on the stream thread
FeedCall ==
    /\ feedPc \in {"idle", "done"}
    /\ nFeeds < MaxFeeds
    /\ nFeeds' = nFeeds + 1
    /\ feedSeen' = <<>>
    /\ feedPc' = "lock"
    /\ UNCHANGED <<caCfg, caBuilt, caMutex, caQueue, hmPc, hmMsg, nCfgs,
                   CaRest>>

\* m_settingsMutex.lock() in feed
FeedLock ==
    /\ feedPc = "lock"
    /\ caMutex = "free"
    /\ caMutex' = "feed"
    /\ feedPc' = CaOrder[1]
    /\ UNCHANGED <<caCfg, caBuilt, caQueue, hmPc, hmMsg, feedSeen, nFeeds,
                   nCfgs, CaRest>>

\* feed reads the next value it works with
FeedRead ==
    /\ feedPc \in {CaOrder[i] : i \in DOMAIN CaOrder}
    /\ feedSeen' = Append(feedSeen, CaRead(feedPc))
    /\ feedPc' = CaAfter(feedPc, "unlock")
    /\ UNCHANGED <<caCfg, caBuilt, caMutex, caQueue, hmPc, hmMsg, nFeeds,
                   nCfgs, CaRest>>

\* m_settingsMutex.unlock() in feed, which then returns
FeedUnlock ==
    /\ feedPc = "unlock"
    /\ caMutex' = "free"
    /\ feedPc' = "done"
    /\ UNCHANGED <<caCfg, caBuilt, caQueue, hmPc, hmMsg, feedSeen, nFeeds,
                   nCfgs, CaRest>>

InitCA == FsInit /\ ValIdle /\ MqIdle /\ LifeIdle /\ CaInit
          /\ RepIdle /\ AfcIdle /\ PatchIdle

NextCA ==
    \/ Configures
    \/ HmCall
    \/ HmLock
    \/ HmWrite
    \/ HmUnlock
    \/ FeedCall
    \/ FeedLock
    \/ FeedRead
    \/ FeedUnlock

SpecCA == InitCA /\ [][NextCA]_vars

\* what a feed call has read so far comes from cfg alone
SeenFrom(cfg) ==
    \A i \in DOMAIN feedSeen : feedSeen[i] = CaSnapshot(cfg)[CaOrder[i]]

\* C8: at every point of every feed call, the values it has read of
\* m_Bandwidth, m_LowCutoff, m_spanLog2, m_ssb, the filter and the
\* oscillator all come from one configure message or from the initial
\* state, never from two.
C8_FeedSeesOneConfiguration ==
    \E cfg \in CaConfigs \cup {CaInitial} : SeenFrom(cfg)

\* C13: a call of configure changes none of m_Bandwidth, m_LowCutoff,
\* m_spanLog2, m_ssb, the filters and the oscillator, and appends one
\* MsgConfigureChannelAnalyzer with its four arguments to the queue; these
\* fields change only in handleMessage, between its lock and unlock, to the
\* values of the message it was given.
C13_ConfigureOnlyPushes ==
    [][/\ nCfgs' # nCfgs =>
            /\ UNCHANGED <<caCfg, caBuilt>>
            /\ \E cfg \in CaConfigs :
                  caQueue' = Append(caQueue, MsgConfigureChannelAnalyzer(cfg))
       /\ (caCfg' # caCfg \/ caBuilt' # caBuilt) =>
            /\ hmMsg # <<>>
            /\ caMutex = "handleMessage"
            /\ \A k \in DOMAIN caCfg :
                  caCfg'[k] # caCfg[k] => caCfg'[k] = MsgField(hmMsg[1], k)
            /\ caBuilt'.filter \in {caBuilt.filter, FilterOf(caCfg)}
            /\ caBuilt'.nco \in {caBuilt.nco, NcoOf(caCfg)}]_vars

\* C13 witness: one configure message has been applied by handleMessage and
\* another, with other values, waits in the queue with the fields untouched
C13_Witness ==
    /\ caCfg \in CaConfigs
    /\ caBuilt = [filter |-> FilterOf(caCfg), nco |-> NcoOf(caCfg)]
    /\ hmPc = "idle"
    /\ caQueue # <<>>
    /\ MsgConfigureChannelAnalyzer(caCfg) # caQueue[1]

\* a feed call has read everything from one configure message while
\* handleMessage, given another message, waited for the mutex
C8_Witness ==
    /\ feedPc = "done"
    /\ Len(feedSeen) = Len(CaOrder)
    /\ \E cfg \in CaConfigs : SeenFrom(cfg)
    /\ hmPc = "lock"
    /\ hmMsg # <<>>
    /\ MsgField(hmMsg[1], "m_Bandwidth") # feedSeen[1]


---------------------------------------------------------------------------
(* SpecReport: FileSource::webapiReportGet, given what the baseband source *)
(* reports of the file it plays.                                           *)
(*   repIn    getSamplesCount(), getFileSampleRate(), getStartingTimeStamp(), *)
(*            getRecordLength(), getFileSampleSize()                       *)
(*   repOut   the SWGFileSourceReport and the status returned              *)

\* QTime(0, 0, 0, 0).addSecs(s).addMSecs(ms) as "HH:mm:ss.zzz": the time of
\* day, which wraps after 24 hours
QTimeOf(s, ms) ==
    LET secs == (s + (ms \div 1000)) % 86400
    IN  <<secs \div 3600, (secs % 3600) \div 60, secs % 60, ms % 1000>>

\* Values wider than the model checker's integers: a natural number is the
\* sequence of its base-256 digits, least significant first, without
\* leading zeros; quint64 and uint32_t values are such numbers below 2^64
\* and 2^32, a qint64 value is a sign and a magnitude.
RECURSIVE WNorm(_)
WNorm(a) ==
    IF a = <<>> THEN <<>>
    ELSE IF a[Len(a)] = 0 THEN WNorm(SubSeq(a, 1, Len(a) - 1)) ELSE a

RECURSIVE WOf(_)
WOf(n) == IF n = 0 THEN <<>> ELSE <<n % 256>> \o WOf(n \div 256)

WDigit(a, i) == IF i <= Len(a) THEN a[i] ELSE 0

RECURSIVE WAddC(_, _, _, _)
WAddC(a, b, i, carry) ==
    IF i > Len(a) /\ i > Len(b)
    THEN IF carry = 0 THEN <<>> ELSE <<carry>>
    ELSE LET s == WDigit(a, i) + WDigit(b, i) + carry
         IN  <<s % 256>> \o WAddC(a, b, i + 1, s \div 256)

WAdd(a, b) == WAddC(a, b, 1, 0)

RECURSIVE WLessAt(_, _, _)
WLessAt(a, b, i) ==
    IF i = 0 THEN FALSE
    ELSE IF a[i] # b[i] THEN a[i] < b[i] ELSE WLessAt(a, b, i - 1)

WLess(a, b) == IF Len(a) # Len(b) THEN Len(a) < Len(b) ELSE WLessAt(a, b, Len(a))

WLeq(a, b) == ~WLess(b, a)

\* a - b, for a >= b
RECURSIVE WSubB(_, _, _, _)
WSubB(a, b, i, borrow) ==
    IF i > Len(a) THEN <<>>
    ELSE LET d == a[i] - WDigit(b, i) - borrow
         IN  <<(d + 256) % 256>> \o WSubB(a, b, i + 1, IF d < 0 THEN 1 ELSE 0)

WSub(a, b) == WNorm(WSubB(a, b, 1, 0))

RECURSIVE WMulC(_, _, _, _)
WMulC(a, d, i, carry) ==
    IF i > Len(a) THEN WOf(carry)
    ELSE LET s == a[i] * d + carry
         IN  <<s % 256>> \o WMulC(a, d, i + 1, s \div 256)

RECURSIVE WMul(_, _)
WMul(a, b) ==
    IF a = <<>> \/ b = <<>> THEN <<>>
    ELSE LET rest == WMul(a, Tail(b))
         IN  WAdd(WNorm(WMulC(a, b[1], 1, 0)),
                  IF rest = <<>> THEN <<>> ELSE <<0>> \o rest)

\* a times one digit
WMulDigit(a, d) == WNorm(WMulC(a, d, 1, 0))

\* the largest digit q with q * b <= cur, for cur < 256 * b: q is built
\* from its most significant bit down
RECURSIVE WQuotDigit(_, _, _, _)
WQuotDigit(cur, b, q, bit) ==
    IF bit = 0 THEN q
    ELSE IF WLeq(WMulDigit(b, q + bit), cur)
         THEN WQuotDigit(cur, b, q + bit, bit \div 2)
         ELSE WQuotDigit(cur, b, q, bit \div 2)

\* long division by b > 0 of the digits of a from the i-th up, one digit
\* at a time from the most significant
RECURSIVE WDivFrom(_, _, _)
WDivFrom(a, b, i) ==
    IF i > Len(a) THEN [quot |-> <<>>, rem |-> <<>>]
    ELSE LET above == WDivFrom(a, b, i + 1)
             cur == WNorm(<<a[i]>> \o above.rem)
             q == WQuotDigit(cur, b, 0, 128)
         IN  [quot |-> WNorm(<<q>> \o above.quot),
              rem |-> WSub(cur, WMulDigit(b, q))]

\* unsigned a / b
WDiv(a, b) == WDivFrom(a, b, 1).quot

W2p63 == <<0, 0, 0, 0, 0, 0, 0, 128>>
W2p64 == <<0, 0, 0, 0, 0, 0, 0, 0, 1>>

\* a modulo 2^64
WMod64(a) == WNorm(SubSeq(a, 1, IF Len(a) < 8 THEN Len(a) ELSE 8))

\* the qint64 a quint64 converts to, and back: modulo 2^64
qint64(u) ==
    IF WLess(u, W2p63) THEN [neg |-> FALSE, mag |-> u]
    ELSE [neg |-> TRUE, mag |-> WSub(W2p64, u)]

quint64(i) == IF i.neg THEN WMod64(WSub(W2p64, WMod64(i.mag))) ELSE WMod64(i.mag)

\* an int from a qint64, as QTime::addSecs(int) and addMSecs(int) take it:
\* the low 32 bits, two's complement
int(i) ==
    LET u == quint64(i)
        low == WDigit(u, 1) + 256 * WDigit(u, 2) + 65536 * WDigit(u, 3)
                  + 16777216 * (WDigit(u, 4) % 128)
    IN  IF WDigit(u, 4) >= 128 THEN (low - 2147483647) - 1 ELSE low

\* qint64 * uint32_t: the uint32_t converts to qint64 and the product is
\* signed.  Out of the range of qint64 the behaviour is undefined: builds
\* either wrap modulo 2^64 or trap.
SignedMul(i, r) ==
    LET mag == WMul(i.mag, r)
        exact == [neg |-> i.neg /\ mag # <<>>, mag |-> mag]
        inRange == IF exact.neg THEN WLeq(mag, W2p63) ELSE WLess(mag, W2p63)
    IN  IF inRange
        THEN {[value |-> exact, overflow |-> FALSE, trapped |-> FALSE]}
        ELSE {[value |-> qint64(quint64(exact)), overflow |-> TRUE,
               trapped |-> FALSE],
              [value |-> qint64(<<>>), overflow |-> TRUE, trapped |-> TRUE]}

\* quint64 - quint64, modulo 2^64
UnsignedSub(a, b) == IF WLeq(b, a) THEN WSub(a, b) ELSE WSub(WAdd(a, W2p64), b)

\* lines 390-402: the locals t_sec and t_msec, given whether the division
\* is guarded; the outcomes the statements can have
ElapsedSplit(in, guarded) ==
    LET samplesCount == in.samplesCount
        fileSampleRate == in.fileSampleRate
        zero == qint64(<<>>)
    IN  IF guarded /\ ~WLess(<<>>, fileSampleRate)
        THEN {[t_sec |-> zero, t_msec |-> zero, divisions |-> 0,
               overflow |-> FALSE, completed |-> TRUE]}
        ELSE IF fileSampleRate = <<>>
        THEN {[t_sec |-> zero, t_msec |-> zero, divisions |-> 1,
               overflow |-> FALSE, completed |-> FALSE]}
        ELSE LET t_sec == qint64(WDiv(samplesCount, fileSampleRate))
             IN  {LET scaled == WMul(UnsignedSub(samplesCount,
                                                 quint64(product.value)),
                                     WOf(1000))
                  IN  IF product.trapped
                      THEN [t_sec |-> t_sec, t_msec |-> zero, divisions |-> 1,
                            overflow |-> TRUE, completed |-> FALSE]
                      ELSE [t_sec |-> t_sec,
                            t_msec |-> qint64(WDiv(WMod64(scaled),
                                                   fileSampleRate)),
                            divisions |-> 2,
                            overflow |-> product.overflow
                                            \/ ~WLess(scaled, W2p64),
                            completed |-> TRUE]
                  : product \in SignedMul(t_sec, fileSampleRate)}

\* the rest of webapiFormatChannelReport, lines 404-424
ReportOf(in, split) ==
    [completed |-> split.completed, divisions |-> split.divisions,
     overflow |-> split.overflow,
     t_sec |-> split.t_sec, t_msec |-> split.t_msec,
     elapsedTime |-> QTimeOf(int(split.t_sec), int(split.t_msec)),
     absoluteTime |-> [startingTimeStamp |-> in.startingTimeStamp,
                       addSecs |-> split.t_sec, addMSecs |-> split.t_msec],
     durationTime |-> QTimeOf(in.fileRecordLength, 0),
     fileName |-> m_settings.m_fileName,
     fileSampleRate |-> in.fileSampleRate,
     fileSampleSize |-> in.fileSampleSize,
     sampleRate |-> m_basebandSampleRate]

\* a webapiFormatChannelReport that divides whatever the file sample rate;
\* the division by zero ends the call
webapiFormatChannelReport_Unguarded(in) ==
    {ReportOf(in, split) : split \in ElapsedSplit(in, FALSE)}

\* FileSource::webapiFormatChannelReport: the reports it can leave, each
\* with the values of its locals t_sec and t_msec, how many divisions it
\* made, whether a product left the range of its type and whether the call
\* ran to its end
webapiFormatChannelReport(in) ==
    {ReportOf(in, split) : split \in ElapsedSplit(in, TRUE)}

\* what the baseband source reports: nothing played yet, files in play, and
\* counts and rates at the ends of their types' ranges
ReportInputs ==
    [samplesCount : {WOf(0), WOf(1), WOf(47999), WOf(48000), WOf(72000),
                     WOf(96001), WOf(172800000),
                     <<255, 255, 255, 255, 255, 255, 255, 127>>,
                     W2p63,
                     <<2, 0, 0, 0, 0, 0, 0, 128>>,
                     <<255, 255, 255, 255, 255, 255, 255, 255>>},
     fileSampleRate : {WOf(0), WOf(1), WOf(2), WOf(48000), WOf(96000),
                       <<255, 255, 255, 255>>},
     startingTimeStamp : {0, 1600000000},
     fileRecordLength : {0, 60},
     fileSampleSize : {16, 24}]

RepInit ==
    /\ repIn \in ReportInputs
    /\ repOut = <<>>
    /\ repDone = FALSE

\* FileSource::webapiReportGet
webapiReportGet ==
    /\ ~repDone
    /\ \E report \in webapiFormatChannelReport(repIn) :
          repOut' = [report |-> report,
                     status |-> IF report.completed THEN 200 ELSE 0]
    /\ repDone' = TRUE
    /\ UNCHANGED <<repIn, fsVars, valVars, mqVars, lifeVars, caVars, afcVars,
                   patchVars>>

InitReport == /\ FsInit /\ ValIdle /\ MqIdle /\ LifeIdle /\ CaIdle
              /\ RepInit /\ AfcIdle /\ PatchIdle

NextReport == webapiReportGet

SpecReport == InitReport /\ [][NextReport]_vars

\* C12: when the file sample rate is 0, webapiFormatChannelReport divides
\* nothing, leaves t_sec = 0 and t_msec = 0, reports the elapsed time
\* 00:00:00.000 and completes, and webapiReportGet returns 200.
C12_ZeroRateReport ==
    (repDone /\ repIn.fileSampleRate = WOf(0)) =>
        /\ repOut.report.completed
        /\ repOut.report.divisions = 0
        /\ repOut.report.t_sec = qint64(WOf(0))
        /\ repOut.report.t_msec = qint64(WOf(0))
        /\ repOut.report.elapsedTime = <<0, 0, 0, 0>>
        /\ repOut.status = 200

\* C12 witness: a report was returned while nothing had been played
C12_Witness ==
    /\ repDone
    /\ repIn.fileSampleRate = WOf(0)
    /\ repIn.samplesCount = WOf(0)
    /\ repOut.status = 200

\* C22: for every samplesCount of 64 bits and every fileSampleRate > 0 of 32
\* bits, webapiFormatChannelReport leaves t_sec = floor(samplesCount /
\* fileSampleRate) and t_msec = floor((samplesCount mod fileSampleRate) *
\* 1000 / fileSampleRate), so 0 <= t_msec < 1000, and no product it computes
\* on the way leaves the range of its 64-bit type.
C22_ElapsedTimeSplit ==
    (repDone /\ WLess(WOf(0), repIn.fileSampleRate)) =>
        LET samplesCount == repIn.samplesCount
            fileSampleRate == repIn.fileSampleRate
            t_sec == repOut.report.t_sec
            t_msec == repOut.report.t_msec
            rest == WSub(samplesCount, WMul(t_sec.mag, fileSampleRate))
        IN  /\ repOut.report.completed
            /\ ~repOut.report.overflow
            /\ ~t_sec.neg
            /\ WLeq(WMul(t_sec.mag, fileSampleRate), samplesCount)
            /\ WLess(rest, fileSampleRate)
            /\ ~t_msec.neg
            /\ WLeq(WMul(t_msec.mag, fileSampleRate), WMul(rest, WOf(1000)))
            /\ WLess(WMul(rest, WOf(1000)),
                     WMul(WAdd(t_msec.mag, WOf(1)), fileSampleRate))
            /\ WLess(t_msec.mag, WOf(1000))


---------------------------------------------------------------------------
(* SpecAFC: the AFC worker.                                                *)
(*   afcRunning   m_running, which isRunning() returns                     *)
(*   afcTimer     m_updateTimer is active                                  *)
(*   afcPending   a timeout of m_updateTimer waits to be delivered         *)
(*   afcTx        m_tx                                                     *)
(*   afcSettings  m_settings                                               *)
(*   afcQueue     m_inputMessageQueue                                      *)
(*   afcIssued    what the tick or message handled last issued to the      *)
(*                channels, each with isRunning() at the time              *)
(*   afcLast      which of startWork() and stopWork() returned last        *)

AfcRest == <<fsVars, valVars, mqVars, lifeVars, caVars, repVars, patchVars>>

\* AFCSettings given to the worker: the frequency error it tolerates
AfcSettingsSet == {[threshold |-> 100], [threshold |-> 1000]}

\* frequency errors the channels report
FrequencyErrors == {0, 500}

MsgConfigureAFCWorker(settings, force) ==
    [kind |-> "MsgConfigureAFCWorker", settings |-> settings, force |-> force]

Issued(kind, value) == [kind |-> kind, value |-> value, running |-> afcRunning]

AfcInit ==
    /\ afcRunning = FALSE
    /\ afcTimer = FALSE
    /\ afcPending = FALSE
    /\ afcTx = FALSE
    /\ afcSettings = [threshold |-> 100]
    /\ afcQueue = <<>>
    /\ afcIssued = <<>>
    /\ afcLast = "none"
    /\ nAfc = 0

\* AFCWorker::startWork: the timer runs and m_running, which it returns, is
\* true
startWork ==
    /\ nAfc < MaxAfcOps
    /\ nAfc' = nAfc + 1
    /\ afcRunning' = TRUE
    /\ afcTimer' = TRUE
    /\ afcLast' = "startWork"
    /\ afcIssued' = <<>>
    /\ UNCHANGED <<afcPending, afcTx, afcSettings, afcQueue, AfcRest>>

\* AFCWorker::stopWork: the timer is stopped; a timeout it has already
\* posted is not taken back
stopWork ==
    /\ nAfc < MaxAfcOps
    /\ nAfc' = nAfc + 1
    /\ afcRunning' = FALSE
    /\ afcTimer' = FALSE
    /\ afcLast' = "stopWork"
    /\ afcIssued' = <<>>
    /\ UNCHANGED <<afcPending, afcTx, afcSettings, afcQueue, AfcRest>>

\* m_updateTimer expires
AfcTimeout ==
    /\ afcTimer
    /\ ~afcPending
    /\ afcPending' = TRUE
    /\ afcIssued' = <<>>
    /\ UNCHANGED <<afcRunning, afcTimer, afcTx, afcSettings, afcQueue, afcLast,
                   nAfc, AfcRest>>

\* what a tick issues, given the error the channels report and whether a
\* transmit/receive switch is due
TickCommands(error, switch) ==
    (IF error > afcSettings.threshold
        THEN <<Issued("configure", -error)>> ELSE <<>>)
    \o (IF switch THEN <<Issued("MsgPTT", ~afcTx)>> ELSE <<>>)

\* a tick that does not look at m_running
AfcTick_Unchecked ==
    /\ afcPending
    /\ afcPending' = FALSE
    /\ \E error \in FrequencyErrors, switch \in BOOLEAN :
          /\ afcIssued' = TickCommands(error, switch)
          /\ afcTx' = IF switch THEN ~afcTx ELSE afcTx
    /\ UNCHANGED <<afcRunning, afcTimer, afcSettings, afcQueue, afcLast, nAfc,
                   AfcRest>>

\* the timer's timeout is delivered: while Running, the channels are asked
\* for their frequency error, and a correction and a PTT transition are
\* issued as needed
AfcTick ==
    /\ afcPending
    /\ afcPending' = FALSE
    /\ IF afcRunning
         THEN \E error \in FrequencyErrors, switch \in BOOLEAN :
                 /\ afcIssued' = TickCommands(error, switch)
                 /\ afcTx' = IF switch THEN ~afcTx ELSE afcTx
         ELSE /\ afcIssued' = <<>>
              /\ UNCHANGED afcTx
    /\ UNCHANGED <<afcRunning, afcTimer, afcSettings, afcQueue, afcLast, nAfc,
                   AfcRest>>

\* the feature pushes a MsgConfigureAFCWorker to the worker's queue
AfcConfigures ==
    \E settings \in AfcSettingsSet, force \in BOOLEAN :
        /\ nAfc < MaxAfcOps
        /\ nAfc' = nAfc + 1
        /\ afcQueue' = push(afcQueue, MsgConfigureAFCWorker(settings, force))
        /\ afcIssued' = <<>>
        /\ UNCHANGED <<afcRunning, afcTimer, afcPending, afcTx, afcSettings,
                       afcLast, AfcRest>>

\* AFCWorker::handleInputMessages: the next message goes to handleMessage,
\* which applies its settings
AfcHandleInputMessages ==
    /\ afcQueue # <<>>
    /\ afcQueue' = popRest(afcQueue)
    /\ afcSettings' = IF popMsg(afcQueue).kind = "MsgConfigureAFCWorker"
                      THEN popMsg(afcQueue).settings ELSE afcSettings
    /\ afcIssued' = <<>>
    /\ UNCHANGED <<afcRunning, afcTimer, afcPending, afcTx, afcLast, nAfc,
                   AfcRest>>

InitAFC == /\ FsInit /\ ValIdle /\ MqIdle /\ LifeIdle /\ CaIdle
           /\ RepIdle /\ AfcInit /\ PatchIdle

NextAFC ==
    \/ startWork
    \/ stopWork
    \/ AfcTimeout
    \/ AfcTick
    \/ AfcConfigures
    \/ AfcHandleInputMessages

SpecAFC == InitAFC /\ [][NextAFC]_vars

\* C14: isRunning() is true exactly when startWork() returned last, and
\* whatever sequence of startWork, stopWork, ticks and messages is run,
\* every corrective configure command and every PTT transition is issued
\* while isRunning() is true.
C14_ActsOnlyWhileRunning ==
    /\ afcRunning <=> (afcLast = "startWork")
    /\ \A i \in DOMAIN afcIssued : afcIssued[i].running

\* C14 witness: restarted after a stop, the worker has issued a correction
\* and a PTT transition on one tick
C14_Witness ==
    /\ afcRunning
    /\ nAfc >= 3
    /\ {afcIssued[i].kind : i \in DOMAIN afcIssued} = {"configure", "MsgPTT"}


---------------------------------------------------------------------------
(* SpecPatch: webapiSettingsPutPatch called in succession by the control   *)
(* domain while the owner of the input queue handles the messages when it  *)
(* gets to them.                                                           *)
(*   patchLog   of each call made, the request and the settings it built   *)

PatchRest == <<valVars, mqVars, lifeVars, caVars, repVars, afcVars>>

\* a PATCH request, force off; the call is noted in patchLog
PatchCalls ==
    /\ \E keys \in KeySets, response \in Requests :
          webapiSettingsPutPatch(FALSE, keys, response)
    /\ patchLog' = Append(patchLog, [request |-> ret'.cmd,
                                     settings |-> lastEnqueued'])
    /\ UNCHANGED PatchRest

PatchHandles == HandleInputMessages /\ UNCHANGED <<patchLog, PatchRest>>

PatchBasebandHandles ==
    BasebandHandleInputMessages /\ UNCHANGED <<patchLog, PatchRest>>

\* the worker thread is started, so that the baseband source handles the
\* messages relayed to it
PatchStarts == start /\ UNCHANGED <<patchLog, PatchRest>>

InitPatch == Init

NextPatch == PatchStarts \/ PatchCalls \/ PatchHandles \/ PatchBasebandHandles

SpecPatch == InitPatch /\ [][NextPatch]_vars

\* C24: when webapiSettingsPutPatch was called twice, with disjoint key sets
\* K1 then K2, and both messages have been handled, m_settings holds the
\* first call's values in the fields K1 names and the second call's values
\* in the fields K2 names, whether the first message was handled before the
\* second call or not.
C24_NoLostUpdate ==
    LET K1 == patchLog[1].request.channelSettingsKeys
        K2 == patchLog[2].request.channelSettingsKeys
    IN  (Len(patchLog) = 2 /\ K1 \cap K2 = {} /\ inputQueue = <<>>) =>
           \A field \in DOMAIN m_settings :
              /\ KeyOf(field) \in K1
                    => m_settings[field] = patchLog[1].settings[field]
              /\ KeyOf(field) \in K2
                    => m_settings[field] = patchLog[2].settings[field]

=============================================================================
